---------------------------- MODULE Spec2Model ----------------------------
(***************************************************************************)
(* Model of the plugin-manager reconciliation watchers:                    *)
(*   arpsync        (src/arpsync/watcher.go)                               *)
(*   conntracksync  (src/vethsync/utils/utils.go, second package)          *)
(*   vethsync/utils (src/vethsync/utils/utils.go, first package)           *)
(*                                                                         *)
(* Go strings on which the code computes (split, concatenate, prefix,      *)
(* parse) are sequences of one-character strings; Go strings that are only *)
(* compared are TLA+ strings.  A hardware address and an IP address held   *)
(* by the kernel are sequences of bytes.                                   *)
(***************************************************************************)
EXTENDS Integers, Sequences, FiniteSets, TLC

(***************************************************************************)
(* Text primitives (Go strings, strconv, strings)                          *)
(***************************************************************************)

DecDigits == <<"0", "1", "2", "3", "4", "5", "6", "7", "8", "9">>

LowerHex == <<"0", "1", "2", "3", "4", "5", "6", "7", "8", "9", "a", "b", "c", "d", "e", "f">>

UpperHex == <<"0", "1", "2", "3", "4", "5", "6", "7", "8", "9", "A", "B", "C", "D", "E", "F">>

IsDigit(c) == \E i \in 1..10 : DecDigits[i] = c

DigitVal(c) == (CHOOSE i \in 1..10 : DecDigits[i] = c) - 1

IsHex(c) == \E i \in 1..16 : LowerHex[i] = c \/ UpperHex[i] = c

HexVal(c) == (CHOOSE i \in 1..16 : LowerHex[i] = c \/ UpperHex[i] = c) - 1

\* s[from:] of Go, with from a 0-based offset
Drop(s, from) == SubSeq(s, from + 1, Len(s))

\* s[:to] of Go
Take(s, to) == SubSeq(s, 1, to)

\* strings.HasPrefix
HasPrefix(s, p) == Len(s) >= Len(p) /\ SubSeq(s, 1, Len(p)) = p

\* strings.IndexByte: the 1-based position of the first c in s, 0 when absent
IndexByte(s, c) == IF \E i \in 1..Len(s) : s[i] = c THEN CHOOSE i \in 1..Len(s) : s[i] = c /\ \A j \in 1..(i - 1) : s[j] # c ELSE 0

RECURSIVE Split(_, _)
\* strings.Split(s, sep) for a one-character separator
Split(s, sep) ==
    LET i == IndexByte(s, sep)
    IN  IF i = 0 THEN <<s>> ELSE <<SubSeq(s, 1, i - 1)>> \o Split(SubSeq(s, i + 1, Len(s)), sep)

RECURSIVE Uitoa(_)
\* strconv.Itoa for n >= 0
Uitoa(n) == IF n < 10 THEN <<DecDigits[n + 1]>> ELSE Uitoa(n \div 10) \o <<DecDigits[(n % 10) + 1]>>

\* strconv.Itoa
Itoa(n) == IF n < 0 THEN <<"-">> \o Uitoa(0 - n) ELSE Uitoa(n)

RECURSIVE DigitsValue(_)
\* the value of a sequence of decimal digits (at most 9 digits are evaluated)
DigitsValue(s) == IF s = <<>> THEN 0 ELSE DigitsValue(Take(s, Len(s) - 1)) * 10 + DigitVal(s[Len(s)])

AllDigits(s) == Len(s) >= 1 /\ \A i \in 1..Len(s) : IsDigit(s[i])


(***************************************************************************)
(* Go int / int64 / time.Duration: 64-bit two's complement, held as eight  *)
(* bytes, least significant first (values exceed what TLC's integers hold) *)
(***************************************************************************)

Zero64 == <<0, 0, 0, 0, 0, 0, 0, 0>>

\* the first eight limbs of l, padded with zero limbs
Pad8(l) == [i \in 1..8 |-> IF i <= Len(l) THEN l[i] ELSE 0]

RECURSIVE MulAdd(_, _, _)
\* l * k + c on an unbounded little-endian base-256 magnitude (k, c small)
MulAdd(l, k, c) ==
    IF l = <<>>
    THEN IF c = 0 THEN <<>> ELSE <<c % 256>> \o MulAdd(<<>>, k, c \div 256)
    ELSE LET v == l[1] * k + c IN <<v % 256>> \o MulAdd(Tail(l), k, v \div 256)

RECURSIVE Magnitude(_)
\* the unbounded magnitude of a sequence of decimal digits
Magnitude(s) == IF s = <<>> THEN <<>> ELSE MulAdd(Magnitude(Take(s, Len(s) - 1)), 10, DigitVal(s[Len(s)]))

RECURSIVE AddCarry(_, _)
\* l + c, truncated to the length of l (wraps)
AddCarry(l, c) == IF l = <<>> THEN <<>> ELSE LET v == l[1] + c IN <<v % 256>> \o AddCarry(Tail(l), v \div 256)

\* -a in 64-bit two's complement
Neg64(a) == AddCarry([i \in 1..8 |-> 255 - a[i]], 1)

RECURSIVE ColumnSum(_, _, _, _)
\* sum of a[i] * b[k + 1 - i] for i in 1..n
ColumnSum(a, b, k, n) == IF n = 0 THEN 0 ELSE a[n] * b[k + 1 - n] + ColumnSum(a, b, k, n - 1)

RECURSIVE MulColumns(_, _, _, _)
MulColumns(a, b, k, carry) ==
    IF k > 8 THEN <<>>
    ELSE LET v == carry + ColumnSum(a, b, k, k) IN <<v % 256>> \o MulColumns(a, b, k + 1, v \div 256)

\* a * b of Go on int64: the low 64 bits of the product (overflow wraps)
Mul64(a, b) == MulColumns(a, b, 1, 0)

\* the int64 of a small non-negative model integer
Int64Of(n) == Pad8(MulAdd(<<>>, 1, n))

\* time.Second, in nanoseconds: 1000000000 = 0x3B9ACA00
Second == <<0, 202, 154, 59, 0, 0, 0, 0>>

\* strconv.Atoi on a 64-bit platform: an optional sign, then decimal digits
\* only; a value outside int64 is a range error
Atoi(s) ==
    LET signed == Len(s) >= 1 /\ s[1] \in {"+", "-"}
        neg == Len(s) >= 1 /\ s[1] = "-"
        body == IF signed THEN Drop(s, 1) ELSE s
        mag == Magnitude(body)
        inRange == \/ Len(mag) < 8
                   \/ Len(mag) = 8 /\ mag[8] < 128
                   \/ neg /\ mag = <<0, 0, 0, 0, 0, 0, 0, 128>>
    IN  IF ~AllDigits(body) THEN [ok |-> FALSE, val |-> Zero64]
        ELSE IF ~inRange THEN [ok |-> FALSE, val |-> Zero64]
        ELSE [ok |-> TRUE, val |-> IF neg THEN Neg64(Pad8(mag)) ELSE Pad8(mag)]

(***************************************************************************)
(* net.ParseMAC, net.HardwareAddr.String, net.IP.String, net.ParseCIDR,    *)
(* net.IPNet.Contains, as the watchers use them                            *)
(***************************************************************************)

\* xtoi2 of package net: two hex digits, followed by e when more text follows
XtoI2(s, e) ==
    IF Len(s) > 2 /\ s[3] # e THEN [ok |-> FALSE, b |-> 0]
    ELSE IF Len(s) >= 2 /\ IsHex(s[1]) /\ IsHex(s[2]) THEN [ok |-> TRUE, b |-> 16 * HexVal(s[1]) + HexVal(s[2])]
    ELSE [ok |-> FALSE, b |-> 0]

MacError == [ok |-> FALSE, hw |-> <<>>]

\* net.ParseMAC: xx:xx:..., xx-xx-... or xxxx.xxxx...., of 6, 8 or 20 bytes
ParseMAC(s) ==
    IF Len(s) < 14 THEN MacError
    ELSE IF s[3] \in {":", "-"}
    THEN LET n == (Len(s) + 1) \div 3
             part(i) == XtoI2(Drop(s, 3 * (i - 1)), s[3])
         IN  IF (Len(s) + 1) % 3 # 0 \/ n \notin {6, 8, 20} THEN MacError
             ELSE IF \A i \in 1..n : part(i).ok THEN [ok |-> TRUE, hw |-> [i \in 1..n |-> part(i).b]]
             ELSE MacError
    ELSE IF s[5] = "."
    THEN LET n == (2 * (Len(s) + 1)) \div 5
             hi(j) == XtoI2(SubSeq(s, 5 * (j - 1) + 1, 5 * (j - 1) + 2), "")
             lo(j) == XtoI2(Drop(s, 5 * (j - 1) + 2), ".")
         IN  IF (Len(s) + 1) % 5 # 0 \/ n \notin {6, 8, 20} THEN MacError
             ELSE IF \A j \in 1..(n \div 2) : hi(j).ok /\ lo(j).ok
             THEN [ok |-> TRUE, hw |-> [i \in 1..n |-> IF i % 2 = 1 THEN hi((i + 1) \div 2).b ELSE lo(i \div 2).b]]
             ELSE MacError
    ELSE MacError

RECURSIVE JoinBytes(_, _)
JoinBytes(hw, i) ==
    IF i > Len(hw) THEN <<>>
    ELSE (IF i > 1 THEN <<":">> ELSE <<>>) \o <<LowerHex[(hw[i] \div 16) + 1], LowerHex[(hw[i] % 16) + 1]>> \o JoinBytes(hw, i + 1)

\* net.HardwareAddr.String: lower-case hex bytes joined by ':', "" when empty
HwString(hw) == JoinBytes(hw, 1)

\* net.IP.String of a four-byte address
IPString(ip) == Uitoa(ip[1]) \o <<".">> \o Uitoa(ip[2]) \o <<".">> \o Uitoa(ip[3]) \o <<".">> \o Uitoa(ip[4])

\* one decimal field of a dotted quad: digits only, no leading zero, at most 255
IsByteField(f) == AllDigits(f) /\ Len(f) <= 3 /\ (Len(f) > 1 => f[1] # "0") /\ DigitsValue(f) <= 255

CidrError == [ok |-> FALSE, ip |-> <<>>, bits |-> 0]

\* the byte b under the mask byte i (1-based) of a prefix of the given bits
MaskByte(b, i, bits) ==
    LET keep == IF bits - 8 * (i - 1) >= 8 THEN 8 ELSE IF bits - 8 * (i - 1) <= 0 THEN 0 ELSE bits - 8 * (i - 1)
    IN  b - (b % (2 ^ (8 - keep)))

\* 0xFFFFFF, the bound of dtoi in package net
Big == 16777215

RECURSIVE DtoiFrom(_, _, _)
\* dtoi of package net: the decimal digits at the start of s (i of them read
\* so far, n their value); no digit, or a value of Big or more, is an error
DtoiFrom(s, i, n) ==
    IF i < Len(s) /\ IsDigit(s[i + 1])
    THEN IF n * 10 + DigitVal(s[i + 1]) >= Big THEN [n |-> Big, i |-> i, ok |-> FALSE]
         ELSE DtoiFrom(s, i + 1, n * 10 + DigitVal(s[i + 1]))
    ELSE [n |-> n, i |-> i, ok |-> i > 0]

Dtoi(s) == DtoiFrom(s, 0, 0)

AddrError == [ok |-> FALSE, ip |-> <<>>]

\* the IPv4 parser of package net: four decimal fields
ParseIPv4(s) ==
    LET fields == Split(s, ".")
    IN  IF Len(fields) # 4 \/ \E k \in 1..Len(fields) : ~IsByteField(fields[k]) THEN AddrError
        ELSE [ok |-> TRUE, ip |-> [k \in 1..4 |-> DigitsValue(fields[k])]]

RECURSIVE HexRun(_, _)
\* the number of hex digits s goes on with after its first k characters
HexRun(s, k) == IF k < Len(s) /\ IsHex(s[k + 1]) THEN HexRun(s, k + 1) ELSE k

RECURSIVE HexValue(_)
HexValue(s) == IF s = <<>> THEN 0 ELSE HexValue(Take(s, Len(s) - 1)) * 16 + HexVal(s[Len(s)])

V6Error == [ok |-> FALSE, ip |-> <<>>, ellipsis |-> -1, tail |-> <<>>]

RECURSIVE ParseIPv6From(_, _, _)
\* the loop of the IPv6 parser of package net: s is the text left, ip the
\* bytes saved so far, ellipsis the byte position of "::" (-1: none met).
\* A group has one to four hex digits; a group followed by '.' starts the
\* trailing IPv4 address, which ends the loop: tail is its text
ParseIPv6From(s, ip, ellipsis) ==
    LET off == HexRun(s, 0)
        acc == HexValue(Take(s, off))
        i == Len(ip)
        saved == ip \o <<acc \div 256, acc % 256>>
        rest == Drop(s, off)
        more == Drop(rest, 1)
    IN  IF off = 0 \/ off > 4 THEN V6Error
        ELSE IF off < Len(s) /\ s[off + 1] = "."
        THEN IF (ellipsis < 0 /\ i # 12) \/ i + 4 > 16 THEN V6Error
             ELSE [ok |-> TRUE, ip |-> ip, ellipsis |-> ellipsis, tail |-> s]
        ELSE IF rest = <<>> THEN [ok |-> TRUE, ip |-> saved, ellipsis |-> ellipsis, tail |-> <<>>]
        ELSE IF rest[1] # ":" \/ Len(rest) = 1 THEN V6Error
        ELSE IF more[1] = ":"
        THEN IF ellipsis >= 0 THEN V6Error
             ELSE IF Len(more) = 1 THEN [ok |-> TRUE, ip |-> saved, ellipsis |-> i + 2, tail |-> <<>>]
             ELSE IF i + 2 >= 16 THEN V6Error
             ELSE ParseIPv6From(Drop(more, 1), saved, i + 2)
        ELSE IF i + 2 >= 16 THEN V6Error
        ELSE ParseIPv6From(more, saved, ellipsis)

\* the end of the IPv6 parser: r is what the loop saved, v4 the trailing IPv4
\* address parsed (when r.tail is one); fewer than sixteen bytes need a "::",
\* which stands for the missing groups of zeros, sixteen bytes allow none
ExpandIPv6(r, v4) ==
    LET ip == IF r.tail = <<>> THEN r.ip ELSE r.ip \o v4.ip
        i == Len(ip)
    IN  IF ~r.ok \/ (r.tail # <<>> /\ ~v4.ok) THEN AddrError
        ELSE IF i < 16
        THEN IF r.ellipsis < 0 THEN AddrError
             ELSE [ok |-> TRUE, ip |-> Take(ip, r.ellipsis) \o [k \in 1..(16 - i) |-> 0] \o Drop(ip, r.ellipsis)]
        ELSE IF r.ellipsis >= 0 THEN AddrError
        ELSE [ok |-> TRUE, ip |-> ip]

\* the trailing IPv4 address of what the loop saved
TailIPv6(r) == ExpandIPv6(r, ParseIPv4(r.tail))

\* the IPv6 parser of package net without a zone: sixteen bytes
ParseIPv6(s) ==
    LET lead == Len(s) >= 2 /\ s[1] = ":" /\ s[2] = ":"
        body == IF lead THEN Drop(s, 2) ELSE s
    IN  IF lead /\ body = <<>> THEN [ok |-> TRUE, ip |-> [k \in 1..16 |-> 0]]
        ELSE TailIPv6(ParseIPv6From(body, <<>>, IF lead THEN 0 ELSE -1))

\* the address of a CIDR text: IPv4 when a '.' comes before any ':', IPv6
\* when a ':' comes first; a zone ('%') is an error
ParseAddr(s) ==
    LET dot == IndexByte(s, ".")
        colon == IndexByte(s, ":")
    IN  IF IndexByte(s, "%") # 0 THEN AddrError
        ELSE IF dot # 0 /\ (colon = 0 \/ dot < colon) THEN ParseIPv4(s)
        ELSE IF colon # 0 THEN ParseIPv6(s)
        ELSE AddrError

\* the network of net.ParseCIDR: the address under the mask, of four bytes
\* for IPv4 and sixteen for IPv6, and the prefix length n that dtoi read from
\* a text of len characters
MaskedNetwork(addr, n, len) ==
    IF ~addr.ok \/ ~n.ok \/ n.i # len \/ n.n > 8 * Len(addr.ip) THEN CidrError
    ELSE [ok |-> TRUE, ip |-> [k \in 1..Len(addr.ip) |-> MaskByte(addr.ip[k], k, n.n)], bits |-> n.n]

\* net.ParseCIDR of "address/n"
ParseCIDR(s) ==
    LET i == IndexByte(s, "/")
    IN  IF i = 0 THEN CidrError
        ELSE MaskedNetwork(ParseAddr(SubSeq(s, 1, i - 1)), Dtoi(SubSeq(s, i + 1, Len(s))), Len(s) - i)

\* net.IP.To4: the four bytes of an IPv4 address held in four bytes or as an
\* IPv4-mapped IPv6 address, <<>> for any other address
To4(ip) ==
    IF Len(ip) = 4 THEN ip
    ELSE IF Len(ip) = 16 /\ (\A k \in 1..10 : ip[k] = 0) /\ ip[11] = 255 /\ ip[12] = 255 THEN SubSeq(ip, 13, 16)
    ELSE <<>>

\* net.IPNet.Contains: both sides as four bytes where To4 allows it (the mask
\* of an IPv4-mapped network is then its last four bytes), equal under the
\* mask when they have the same length
Contains(net, ip) ==
    LET mapped == Len(net.ip) = 16 /\ To4(net.ip) # <<>>
        nn == IF mapped THEN To4(net.ip) ELSE net.ip
        bits == IF mapped THEN net.bits - 96 ELSE net.bits
        x == IF To4(ip) # <<>> THEN To4(ip) ELSE ip
    IN  Len(nn) \in {4, 16} /\ Len(x) = Len(nn) /\ \A k \in 1..Len(nn) : MaskByte(x[k], k, bits) = nn[k]

(***************************************************************************)
(* Metadata view (go-rancher-metadata snapshots) and kernel adapters       *)
(***************************************************************************)

\* host.UUID of GetSelfHost
SelfHost == "h1"

RancherBridge == <<"r", "a", "n", "c", "h", "e", "r", "-", "b", "r", "i", "d", "g", "e">>

\* the zero value of metadata.Network
ZeroNetwork == [UUID |-> "", hasCni |-> FALSE, cniConfig |-> [f \in {} |-> 0]]

\* v, _ := props[key].(string): "" when props is no map, the key is absent or
\* the value is no string
PropString(props, key) ==
    IF props.isMap /\ key \in DOMAIN props.fields /\ props.fields[key].isStr THEN props.fields[key].s ELSE <<>>

\* a discovery that returns the fields of the plugin-config as they are
BridgeInfoOfFileUnchecked(props) == [err |-> "nil", bridge |-> PropString(props, "bridge"), bridgeSubnet |-> PropString(props, "bridgeSubnet")]

\* what getBridgeInfo returns when props is the first "rancher-bridge"
\* plugin-config its loop meets
BridgeInfoOfFile(props) ==
    IF PropString(props, "bridge") = <<>> THEN [err |-> "bridge is empty in CNI config", bridge |-> <<>>, bridgeSubnet |-> <<>>]
    ELSE IF PropString(props, "bridgeSubnet") = <<>> THEN [err |-> "bridgeSubnet is empty in CNI config", bridge |-> <<>>, bridgeSubnet |-> <<>>]
    ELSE [err |-> "nil", bridge |-> PropString(props, "bridge"), bridgeSubnet |-> PropString(props, "bridgeSubnet")]

\* arpsync getBridgeInfo: the results its loop over the cniConfig map can
\* return (Go iterates a map in an unspecified order, and the loop returns at
\* the first plugin-config of type "rancher-bridge")
getBridgeInfo(network) ==
    LET conf == IF network.hasCni THEN network.cniConfig ELSE [f \in {} |-> 0]
        matching == {f \in DOMAIN conf : PropString(conf[f], "type") = RancherBridge}
    IN  IF matching = {} THEN {[err |-> "couldn't find bridge info", bridge |-> <<>>, bridgeSubnet |-> <<>>]}
        ELSE {BridgeInfoOfFile(conf[f]) : f \in matching}

\* a map over the containers of every network
buildContainersMapOfAllNetworks(containers, network) ==
    LET idx == {i \in 1..Len(containers) : containers[i].PrimaryIp # <<>>}
        lastOf(ip) == CHOOSE i \in idx : containers[i].PrimaryIp = ip /\ \A j \in idx : containers[j].PrimaryIp = ip => j <= i
    IN  [ip \in {containers[i].PrimaryIp : i \in idx} |-> containers[lastOf(ip)]]

\* arpsync buildContainersMap: PrimaryIp -> container over the containers of
\* the network that have an IP; a later container replaces an earlier one
buildContainersMap(containers, network) ==
    LET idx == {i \in 1..Len(containers) : containers[i].PrimaryIp # <<>> /\ containers[i].NetworkUUID = network.UUID}
        lastOf(ip) == CHOOSE i \in idx : containers[i].PrimaryIp = ip /\ \A j \in idx : containers[j].PrimaryIp = ip => j <= i
    IN  [ip \in {containers[i].PrimaryIp : i \in idx} |-> containers[lastOf(ip)]]

\* the selection "Kind == networkDriverService && Name == PrimaryServiceName"
IsPrimaryDriverService(service) == service.Kind = "networkDriverService" /\ service.Name = service.PrimaryServiceName

RECURSIVE DriverContainers(_)
\* the containers the two nested loops of doSync visit, in order
DriverContainers(services) ==
    IF services = <<>> THEN <<>>
    ELSE (IF IsPrimaryDriverService(Head(services)) THEN Head(services).Containers ELSE <<>>) \o DriverContainers(Tail(services))

\* the driver containers on this host, in the order the loops meet them
LocalDriverContainers(services) == SelectSeq(DriverContainers(services), LAMBDA c : c.HostUUID = SelfHost)

\* networkDriverMacAddress after the loops: the last assignment wins
NetworkDriverMacAddress(services) ==
    LET local == LocalDriverContainers(services)
    IN  IF local = <<>> THEN <<>> ELSE local[Len(local)].PrimaryMacAddress

\* localNetworks after the loops
LocalNetworkUUIDs(services) == {LocalDriverContainers(services)[i].NetworkUUID : i \in 1..Len(LocalDriverContainers(services))}

\* localNetwork: the first network of the list that is in localNetworks, the
\* zero Network when there is none
LocalNetworkOf(networks, services) ==
    LET hits == {i \in 1..Len(networks) : networks[i].UUID \in LocalNetworkUUIDs(services)}
    IN  IF hits = {} THEN ZeroNetwork ELSE networks[CHOOSE i \in hits : \A j \in hits : i <= j]

\* netlink.LinkByName: the positions of the links of that name
LinksNamed(links, name) == {i \in 1..Len(links) : links[i].Name = name}

\* netlink.NeighSet: replace the entry of the same (LinkIndex, IP), or add it
NeighSetMutDeletesLink(k, e) == [k EXCEPT !.links = SelectSeq(k.links, LAMBDA l : l.Index # e.LinkIndex)]

NeighSet(k, e) ==
    LET same(x) == x.LinkIndex = e.LinkIndex /\ x.IP = e.IP
    IN  IF \E i \in 1..Len(k.neigh) : same(k.neigh[i])
        THEN [k EXCEPT !.neigh = [i \in 1..Len(k.neigh) |-> IF same(k.neigh[i]) THEN e ELSE k.neigh[i]]]
        ELSE [k EXCEPT !.neigh = Append(k.neigh, e)]

(***************************************************************************)
(* arpsync: one pass of ARPTableWatcher.doSync                             *)
(***************************************************************************)

\* a repair that installs the container's own MAC wherever the container runs
ExpectedMacIgnoresHost(container, networkDriverMacAddress) == container.PrimaryMacAddress

\* the MAC text an entry is compared with and repaired to: the container's
\* PrimaryMacAddress when it runs on this host, networkDriverMacAddress when
\* it runs on another host
ExpectedMac(container, networkDriverMacAddress) ==
    IF container.HostUUID = SelfHost THEN container.PrimaryMacAddress ELSE networkDriverMacAddress

\* one iteration of the loop over the neighbor entries (watcher.go 198-244):
\* the kernel after it and what it did with the entry
ArpEntry(k, aEntry, ctx, setFails) ==
    IF ~(aEntry.LinkIndex = ctx.bridgeLinkIndex /\ Contains(ctx.bridgeSubnet, aEntry.IP))
    THEN [kernel |-> k, rec |-> [entry |-> aEntry, did |-> "out_of_scope", expected |-> <<>>, sent |-> aEntry]]
    ELSE IF IPString(aEntry.IP) \notin DOMAIN ctx.containersMap
    THEN [kernel |-> k, rec |-> [entry |-> aEntry, did |-> "no_container", expected |-> <<>>, sent |-> aEntry]]
    ELSE LET container == ctx.containersMap[IPString(aEntry.IP)]
             expected == ExpectedMac(container, ctx.networkDriverMacAddress)
             parsed == ParseMAC(expected)
             newEntry == [aEntry EXCEPT !.HardwareAddr = parsed.hw, !.Type = "NUD_REACHABLE"]
         IN  IF expected = HwString(aEntry.HardwareAddr)
             THEN [kernel |-> k, rec |-> [entry |-> aEntry, did |-> "match", expected |-> expected, sent |-> aEntry]]
             ELSE IF ~parsed.ok
             THEN [kernel |-> k, rec |-> [entry |-> aEntry, did |-> "parse_error", expected |-> expected, sent |-> aEntry]]
             ELSE IF setFails
             THEN [kernel |-> k, rec |-> [entry |-> aEntry, did |-> "neighbor_set_failed", expected |-> expected, sent |-> newEntry]]
             ELSE [kernel |-> NeighSet(k, newEntry), rec |-> [entry |-> aEntry, did |-> "neighbor_set", expected |-> expected, sent |-> newEntry]]

\* a loop that would stop at the first entry whose repair fails
NextEntryStopsAtError(i, n, rec) ==
    IF rec.did \in {"parse_error", "neighbor_set_failed", "conntrack_delete_failed"} THEN n + 1 ELSE i + 1

\* where the loop over n listed entries goes after entry i: every error path
\* of the loop body is a continue, so it goes to the next entry
NextEntry(i, n, rec) == i + 1

ArpNoCtx == [bridge |-> <<>>, bridgeLinkIndex |-> 0, bridgeSubnet |-> CidrError, networkUUID |-> "", networkDriverMacAddress |-> <<>>,
             containersMap |-> [key \in {} |-> 0]]

\* the locals of a doSync call that has not made its first call yet: at
\* names the blocking call doSync makes next
NoRun == [at |-> "call", networks |-> <<>>, bridgeSubnetStr |-> <<>>, ctx |-> ArpNoCtx, entries |-> <<>>, i |-> 0, log |-> <<>>]

\* an early return that has already flushed the neighbor table
ArpAbortAfterFlush(k, err) == [err |-> err, kernel |-> [k EXCEPT !.neigh = <<>>], log |-> <<>>, ctx |-> ArpNoCtx, entries |-> <<>>, run |-> NoRun]

\* an early return of doSync: nothing written, no bridge context
ArpAbort(k, err) == [err |-> err, kernel |-> k, log |-> <<>>, ctx |-> ArpNoCtx, entries |-> <<>>, run |-> NoRun]

\* doSync goes on to its next blocking call with locals r
ArpGoesOn(k, r) == [err |-> "nil", kernel |-> k, log |-> r.log, ctx |-> r.ctx, entries |-> r.entries, run |-> r]

\* doSync at mc.GetNetworks (watcher.go 107-110): fault names the call that
\* fails ("none": it succeeds), r holds the locals of doSync
ArpGetNetworks(md, k, fault, r) ==
    IF fault = "GetNetworks" THEN ArpAbort(k, fault)
    ELSE ArpGoesOn(k, [r EXCEPT !.at = "GetSelfHost", !.networks = md.networks])

\* doSync at mc.GetSelfHost (watcher.go 113-116)
ArpGetSelfHost(md, k, fault, r) ==
    IF fault = "GetSelfHost" THEN ArpAbort(k, fault)
    ELSE ArpGoesOn(k, [r EXCEPT !.at = "GetServices"])

\* doSync from mc.GetServices to the bridge information (watcher.go
\* 119-163): info is the result getBridgeInfo returned
ArpGetServices(md, k, fault, info, r) ==
    LET localNetwork == LocalNetworkOf(r.networks, md.services)
    IN  IF fault = "GetServices" THEN ArpAbort(k, fault)
        ELSE IF LocalNetworkUUIDs(md.services) = {} THEN ArpAbort(k, "couldn't find any local networks")
        ELSE IF info.err # "nil" THEN ArpAbort(k, info.err)
        ELSE ArpGoesOn(k, [r EXCEPT !.at = "LinkByName", !.bridgeSubnetStr = info.bridgeSubnet,
                                    !.ctx = [ArpNoCtx EXCEPT !.bridge = info.bridge, !.networkUUID = localNetwork.UUID,
                                                             !.networkDriverMacAddress = NetworkDriverMacAddress(md.services)]])

\* doSync from netlink.LinkByName to the parsed bridge subnet (watcher.go
\* 166-177)
ArpLinkByName(k, fault, r) ==
    LET bridgeLinks == LinksNamed(k.links, r.ctx.bridge)
        bridgeLink == k.links[CHOOSE i \in bridgeLinks : \A j \in bridgeLinks : i <= j]
        bridgeSubnet == ParseCIDR(r.bridgeSubnetStr)
    IN  IF bridgeLinks = {} \/ fault = "LinkByName" THEN ArpAbort(k, "LinkByName")
        ELSE IF ~bridgeSubnet.ok THEN ArpAbort(k, "ParseCIDR")
        ELSE ArpGoesOn(k, [r EXCEPT !.at = "NeighList", !.ctx = [r.ctx EXCEPT !.bridgeLinkIndex = bridgeLink.Index, !.bridgeSubnet = bridgeSubnet]])

\* doSync at netlink.NeighList (watcher.go 180-185): the entries the loop
\* will walk are the ones the table holds at this moment
ArpNeighList(k, fault, r) ==
    IF fault = "NeighList" THEN ArpAbort(k, fault)
    ELSE ArpGoesOn(k, [r EXCEPT !.at = "GetContainers", !.entries = k.neigh])

\* doSync from mc.GetContainers to the containers map (watcher.go 187-197)
ArpGetContainers(md, k, fault, r) ==
    IF fault = "GetContainers" THEN ArpAbort(k, fault)
    ELSE ArpGoesOn(k, [r EXCEPT !.at = "loop", !.i = 1,
                                !.ctx = [r.ctx EXCEPT !.containersMap = buildContainersMap(md.containers, [UUID |-> r.ctx.networkUUID])]])

\* the blocking calls of doSync before its loop, each of which can fail
ArpCalls == {"GetNetworks", "GetSelfHost", "GetServices", "LinkByName", "NeighList", "GetContainers"}


(***************************************************************************)
(* conntracksync: one pass of ConntrackTableWatcher.doSync                 *)
(***************************************************************************)

\* a filter that lets the containers of every host through
PublishesAnywhere(aContainer) == Len(aContainer.Ports) > 0

\* the containers buildContainersMaps reads ports from
PublishesHere(aContainer) == aContainer.HostUUID = SelfHost /\ Len(aContainer.Ports) > 0

\* strings.Split(splits[2], "/")[1] indexes past the end when the third field
\* of a three-field port holds no "/": the goroutine panics
PortPanics(aPort) == Len(Split(aPort, ":")) = 3 /\ Len(Split(Split(aPort, ":")[3], "/")) < 2

\* hostIP + ":" + hostPort + "/" + protocol of a three-field port
PortKey(aPort) ==
    LET splits == Split(aPort, ":")
    IN  splits[1] \o <<":">> \o splits[2] \o <<"/">> \o Split(splits[3], "/")[2]

RECURSIVE PortKeysOf(_, _, _)
\* the assignments containersMap[key] = &containers[index] of container index,
\* in the order of its Ports
PortKeysOf(ports, index, j) ==
    IF j > Len(ports) THEN <<>>
    ELSE (IF Len(Split(ports[j], ":")) # 3 THEN <<>> ELSE <<[key |-> PortKey(ports[j]), index |-> index]>>) \o PortKeysOf(ports, index, j + 1)

RECURSIVE PortAssignments(_, _)
\* all assignments to containersMap, in the order the loops make them
PortAssignments(containers, index) ==
    IF index > Len(containers) THEN <<>>
    ELSE (IF PublishesHere(containers[index]) THEN PortKeysOf(containers[index].Ports, index, 1) ELSE <<>>) \o PortAssignments(containers, index + 1)

\* ConntrackTableWatcher.buildContainersMaps after its two metadata fetches:
\* whether it panics, and otherwise key -> container, the last assignment
\* to a key winning
buildContainersMaps(containers) ==
    LET panics == \E i \in 1..Len(containers) : PublishesHere(containers[i]) /\ \E j \in 1..Len(containers[i].Ports) : PortPanics(containers[i].Ports[j])
        as == PortAssignments(containers, 1)
        lastOf(key) == CHOOSE i \in 1..Len(as) : as[i].key = key /\ \A j \in 1..Len(as) : as[j].key = key => j <= i
    IN  IF panics THEN [panic |-> TRUE, map |-> [key \in {} |-> 0]]
        ELSE [panic |-> FALSE, map |-> [key \in {as[i].key : i \in 1..Len(as)} |-> containers[as[lastOf(key)].index]]]

\* conntrack.CTEntryDelete: the entry leaves the table
CTEntryDelete(k, e) == [k EXCEPT !.ct = SelectSeq(k.ct, LAMBDA x : x # e)]

\* a lookup that only ever tries the wildcard address
SpecificKeyOfWildcard(ctEntry) == <<"0", ".", "0", ".", "0", ".", "0", ":">> \o ctEntry.OriginalDestinationPort \o <<"/">> \o ctEntry.Protocol

\* the key of the entry's own destination address
SpecificKey(ctEntry) == ctEntry.OriginalDestinationIP \o <<":">> \o ctEntry.OriginalDestinationPort \o <<"/">> \o ctEntry.Protocol

\* a lookup that never falls back to the wildcard address
GenericKeyOfDestination(ctEntry) == SpecificKey(ctEntry)

\* the key of the wildcard address for the entry's port and protocol
GenericKey(ctEntry) == <<"0", ".", "0", ".", "0", ".", "0", ":">> \o ctEntry.OriginalDestinationPort \o <<"/">> \o ctEntry.Protocol

\* one iteration of the loop over the DNAT entries (utils.go 259-277)
CtEntry(k, ctEntry, containersMap, deleteFails) ==
    LET specificKey == SpecificKey(ctEntry)
        genericKey == GenericKey(ctEntry)
        specificEntryFound == specificKey \in DOMAIN containersMap
        genericEntryFound == genericKey \in DOMAIN containersMap
        c == IF specificEntryFound THEN containersMap[specificKey] ELSE containersMap[genericKey]
        via == IF specificEntryFound THEN "specific" ELSE "generic"
    IN  IF ~specificEntryFound /\ ~genericEntryFound
        THEN [kernel |-> k, rec |-> [entry |-> ctEntry, did |-> "no_key", via |-> "none", expected |-> <<>>]]
        ELSE IF ctEntry.ReplySourceIP = c.PrimaryIp
        THEN [kernel |-> k, rec |-> [entry |-> ctEntry, did |-> "match", via |-> via, expected |-> c.PrimaryIp]]
        ELSE IF deleteFails
        THEN [kernel |-> k, rec |-> [entry |-> ctEntry, did |-> "conntrack_delete_failed", via |-> via, expected |-> c.PrimaryIp]]
        ELSE [kernel |-> CTEntryDelete(k, ctEntry), rec |-> [entry |-> ctEntry, did |-> "conntrack_delete", via |-> via, expected |-> c.PrimaryIp]]

\* an early return of doSync: nothing written
CtAbort(k, err) == [err |-> err, kernel |-> k, log |-> <<>>, containersMap |-> [key \in {} |-> 0], entries |-> <<>>, run |-> NoRun]

\* doSync goes on to its next blocking call with locals r
CtGoesOn(k, r) == [err |-> "nil", kernel |-> k, log |-> r.log, containersMap |-> r.ctx.containersMap, entries |-> r.entries, run |-> r]

\* buildContainersMaps at mc.GetSelfHost (utils.go 284-288): fault names the
\* call that fails ("none": it succeeds), r holds the locals of doSync
CtGetSelfHost(k, fault, r) ==
    IF fault = "GetSelfHost" THEN CtAbort(k, fault)
    ELSE CtGoesOn(k, [r EXCEPT !.at = "GetContainers"])

\* buildContainersMaps from mc.GetContainers to its return, and doSync's
\* check of the error (utils.go 290-314, 247-251): err is "panic" when
\* buildContainersMaps does not return
CtGetContainers(md, k, fault, r) ==
    LET built == buildContainersMaps(md.containers)
    IN  IF fault = "GetContainers" THEN CtAbort(k, fault)
        ELSE IF built.panic THEN CtAbort(k, "panic")
        ELSE CtGoesOn(k, [r EXCEPT !.at = "ListDNAT", !.ctx = [r.ctx EXCEPT !.containersMap = built.map]])

\* doSync at conntrack.ListDNAT (utils.go 253-257): the entries the loop
\* will walk are the ones the table holds at this moment
CtListDNAT(k, fault, r) ==
    IF fault = "ListDNAT" THEN [CtAbort(k, fault) EXCEPT !.containersMap = r.ctx.containersMap]
    ELSE CtGoesOn(k, [r EXCEPT !.at = "loop", !.entries = k.ct, !.i = 1])

\* the blocking calls of doSync before its loop, each of which can fail
CtCalls == {"GetSelfHost", "GetContainers", "ListDNAT"}


(***************************************************************************)
(* vethsync/utils: host view, container view, diff, cleanup                *)
(***************************************************************************)

\* the prefix the veth watcher passes to GetHostViewVethMap
VethPrefix == <<"v", "e", "t", "h", "r">>

\* network.LocalNetworks: the networks whose network-driver service has a
\* container on this host
LocalNetworks(md) == SelectSeq(md.networks, LAMBDA n : n.UUID \in LocalNetworkUUIDs(md.services))

\* the orders in which a Go map iteration can visit the keys
Orders(keys) == {o \in [1..Cardinality(keys) -> keys] : \A i, j \in 1..Cardinality(keys) : o[i] = o[j] => i = j}

RECURSIVE BridgeInfoAfter(_, _, _, _)
\* the loop of getBridgeInfoFromCNIConfig over the plugin-configs in the
\* order o, from position i on, r holding bridge and lastErr as they are so
\* far: a plugin-config that is no map sets lastErr and leaves bridge, one
\* without a string "bridge" sets lastErr and empties bridge (the failed type
\* assertion assigns the zero value), any other assigns bridge
BridgeInfoAfter(cniConf, o, i, r) ==
    IF i > Len(o) THEN r
    ELSE LET props == cniConf[o[i]]
         IN  BridgeInfoAfter(cniConf, o, i + 1,
                 IF ~props.isMap THEN [r EXCEPT !.err = "error getting props from cni config"]
                 ELSE IF "bridge" \in DOMAIN props.fields /\ props.fields["bridge"].isStr THEN [r EXCEPT !.bridge = props.fields["bridge"].s]
                 ELSE [err |-> "error getting bridge from cni config", bridge |-> <<>>])

\* getBridgeInfoFromCNIConfig: the (bridge, lastErr) pairs its loop over the
\* map can return, one per order of iteration
getBridgeInfoFromCNIConfig(cniConf) ==
    {BridgeInfoAfter(cniConf, o, 1, [err |-> "nil", bridge |-> <<>>]) : o \in Orders(DOMAIN cniConf)}

\* the sets localBridges can be after the loop over the local networks: one
\* name per network whose cniConfig is a map and yields no error
LocalBridgesChoices(localNetworks) ==
    LET usable == {i \in 1..Len(localNetworks) : localNetworks[i].hasCni /\ \A r \in getBridgeInfoFromCNIConfig(localNetworks[i].cniConfig) : r.err = "nil"}
        picks == [usable -> UNION {{r.bridge : r \in getBridgeInfoFromCNIConfig(localNetworks[i].cniConfig)} : i \in usable}]
    IN  {{p[i] : i \in usable} : p \in {q \in picks : \A i \in usable : \E r \in getBridgeInfoFromCNIConfig(localNetworks[i].cniConfig) : r.bridge = q[i]}}

\* localBridgesLinksMap: the indices of the links named like a local bridge
LocalBridgeIndices(links, localBridges) == {links[i].Index : i \in {j \in 1..Len(links) : links[j].Name \in localBridges}}

\* GetHostViewVethMap after LinkList and LocalNetworks succeeded, for one
\* localBridges set: index (decimal string) -> link, over the links with the
\* prefix whose master is a local bridge
GetHostViewVethMap(vethPrefix, links, localBridges) ==
    LET bridges == LocalBridgeIndices(links, localBridges)
        veths == {i \in 1..Len(links) : HasPrefix(links[i].Name, vethPrefix) /\ links[i].MasterIndex \in bridges}
        lastOf(key) == CHOOSE i \in veths : Itoa(links[i].Index) = key /\ \A j \in veths : Itoa(links[j].Index) = key => j <= i
    IN  IF bridges = {} THEN [err |-> "couldn't find any local bridge link", veths |-> [key \in {} |-> 0]]
        ELSE [err |-> "nil", veths |-> [key \in {Itoa(links[i].Index) : i \in veths} |-> links[lastOf(key)]]]

\* what the callback run by network.EnterNS leaves in vethIndex, and whether
\* EnterNS returned an error (namespace entry failed, or no eth0 inside)
VethIndexOf(aContainer) ==
    IF aContainer.NsEntry # "ok" THEN [err |-> "EnterNS", vethIndex |-> <<>>]
    ELSE IF ~aContainer.HasEth0 THEN [err |-> "LinkByName", vethIndex |-> <<>>]
    ELSE [err |-> "nil", vethIndex |-> Itoa(aContainer.Eth0ParentIndex)]

\* a scan that also enters the namespace of host-networked containers
GetContainersViewVethMapOfAllModes(containers) ==
    {VethIndexOf(containers[i]).vethIndex : i \in {j \in 1..Len(containers) : VethIndexOf(containers[j]).err = "nil"}}

\* GetContainersViewVethMapByEnteringNS after ContainerList succeeded
GetContainersViewVethMapByEnteringNS(containers) ==
    {VethIndexOf(containers[i]).vethIndex : i \in {j \in 1..Len(containers) : containers[j].NetworkMode # "host" /\ VethIndexOf(containers[j]).err = "nil"}}

\* GetDanglingVeths: the host veths whose key no container has
GetDanglingVeths(hostVethMap, containerVethMap) ==
    [key \in {x \in DOMAIN hostVethMap : x \notin containerVethMap} |-> hostVethMap[key]]

\* netlink.LinkDel: the link leaves the link list
LinkDel(k, link) == [k EXCEPT !.links = SelectSeq(k.links, LAMBDA l : l.Index # link.Index)]

RECURSIVE CleanUpFrom(_, _, _, _, _)
\* CleanUpDanglingVeths: the loop over the dangling map in the order the map
\* iteration produced (order: a sequence of its keys), from position i on;
\* fails holds the positions at which LinkDel returns an error
CleanUpFrom(k, dangling, order, i, fails) ==
    IF i > Len(order) THEN [kernel |-> k, log |-> <<>>]
    ELSE LET v == dangling[order[i]]
             after == IF i \in fails THEN k ELSE LinkDel(k, v)
             rest == CleanUpFrom(after, dangling, order, i + 1, fails)
         IN  [kernel |-> rest.kernel, log |-> <<[link |-> v, did |-> IF i \in fails THEN "link_delete_failed" ELSE "link_delete"]>> \o rest.log]

CleanUpDanglingVeths(k, dangling, order, fails) == CleanUpFrom(k, dangling, order, 1, fails)

VethAbort(k, err) == [err |-> err, kernel |-> k, log |-> <<>>, localBridges |-> {}, containerView |-> {}]

\* one reconciliation of the veth watcher (spec 4.8): host view, container
\* view by entering namespaces, diff, cleanup
VethDoSyncResult(md, k, dockerContainers, fault, localBridges, order, fails) ==
    LET host == GetHostViewVethMap(VethPrefix, k.links, localBridges)
        containerView == GetContainersViewVethMapByEnteringNS(dockerContainers)
        dangling == GetDanglingVeths(host.veths, containerView)
        done == CleanUpDanglingVeths(k, dangling, order, fails)
    IN  IF fault \in {"LinkList", "LocalNetworks"} THEN VethAbort(k, fault)
        ELSE IF host.err # "nil" THEN VethAbort(k, host.err)
        ELSE IF fault = "ContainerList" THEN VethAbort(k, fault)
        ELSE [err |-> "nil", kernel |-> done.kernel, log |-> done.log, localBridges |-> localBridges, containerView |-> containerView]

\* the key orders the cleanup of a pass can follow
VethOrders(k, dockerContainers, localBridges) ==
    Orders(DOMAIN GetDanglingVeths(GetHostViewVethMap(VethPrefix, k.links, localBridges).veths, GetContainersViewVethMapByEnteringNS(dockerContainers)))

VethFaults == {"LinkList", "LocalNetworks", "ContainerList"}

VethChoices(k, dockerContainers, localBridges, faults) ==
    [fault : faults, order : {<<>>}, fails : {{}}]
    \cup UNION {[fault : {"none"}, order : {o}, fails : SUBSET (1..Len(o))] : o \in VethOrders(k, dockerContainers, localBridges)}


(***************************************************************************)
(* State                                                                   *)
(***************************************************************************)

VARIABLES
    cfg,            \* the interval flags main passes to the Watch functions
    faulty,         \* the calls to the metadata service, the runtime and netlink that can return an error on this host
    metadata,       \* what the metadata service serves: networks, services, containers
    docker,         \* the containers the container runtime lists
    kernel,         \* the kernel tables: links, neigh (ARP), ct (conntrack DNAT)
    main,           \* the Watch call main.run has reached
    proc,           \* "running", or "crashed" once a goroutine has panicked
    pc,             \* per watcher: "idle" (not started), "sleep" (at time.Sleep), "sync" (at doSync)
    syncInterval,   \* per watcher: the time.Duration its loop sleeps (int64 nanoseconds)
    watchErr,       \* per watcher: what Watch returned ("" before the call)
    hist,           \* per watcher: the last two events of its loop
    run,            \* per watcher: the locals of the doSync call in progress
    last            \* per watcher: the outcome of its latest pass

vars == <<cfg, faulty, metadata, docker, kernel, main, proc, pc, syncInterval, watchErr, hist, run, last>>

Watchers == {"arp", "ct", "veth"}

NoPass == [ran |-> FALSE]

\* the calls whose error makes doSync return before its loop
Calls == ArpCalls \cup CtCalls \cup VethFaults

\* what a call among calls can do in this environment: succeed ("none"), or
\* fail when it is one of the calls that can
CanFail(calls) == {"none"} \cup (calls \cap faulty)

\* arpsync.DefaultSyncInterval, conntracksync.DefaultSyncInterval (seconds)
ArpDefaultSyncInterval == 120

CtDefaultSyncInterval == 120

\* the loop state before any Watch call
LoopsIdle ==
    /\ proc = "running"
    /\ pc = [w \in Watchers |-> "idle"]
    /\ syncInterval = [w \in Watchers |-> Zero64]
    /\ watchErr = [w \in Watchers |-> ""]
    /\ hist = [w \in Watchers |-> <<"none", "none">>]
    /\ run = [w \in Watchers |-> NoRun]
    /\ last = [w \in Watchers |-> NoPass]

(***************************************************************************)
(* Scheduler: Watch and syncLoop of arpsync and conntracksync              *)
(***************************************************************************)

\* syncInterval of Watch: DefaultSyncInterval unless Atoi accepts the string,
\* then time.Duration(syncInterval) * time.Second
WatchInterval(syncIntervalStr, default) ==
    LET i == Atoi(syncIntervalStr)
        seconds == IF i.ok THEN i.val ELSE Int64Of(default)
    IN  Mul64(seconds, Second)

\* the loop's event history after event e
Logged(h, e) == <<h[2], e>>

\* a loop that reconciles first and sleeps afterwards
SyncLoopEntrySyncFirst == "sync"

\* where syncLoop starts: at time.Sleep, the first statement of its for loop
SyncLoopEntry == "sleep"

\* conntracksync.Watch (main.run calls it first)
CtWatch ==
    /\ proc = "running" /\ main = "conntracksync"
    /\ syncInterval' = [syncInterval EXCEPT !["ct"] = WatchInterval(cfg.ct, CtDefaultSyncInterval)]
    /\ pc' = [pc EXCEPT !["ct"] = SyncLoopEntry]
    /\ watchErr' = [watchErr EXCEPT !["ct"] = "nil"]
    /\ hist' = [hist EXCEPT !["ct"] = Logged(@, "Watch")]
    /\ main' = "arpsync"
    /\ UNCHANGED <<cfg, faulty, metadata, docker, kernel, proc, run, last>>

\* arpsync.Watch
ArpWatch ==
    /\ proc = "running" /\ main = "arpsync"
    /\ syncInterval' = [syncInterval EXCEPT !["arp"] = WatchInterval(cfg.arp, ArpDefaultSyncInterval)]
    /\ pc' = [pc EXCEPT !["arp"] = SyncLoopEntry]
    /\ watchErr' = [watchErr EXCEPT !["arp"] = "nil"]
    /\ hist' = [hist EXCEPT !["arp"] = Logged(@, "Watch")]
    /\ main' = "vethsync"
    /\ UNCHANGED <<cfg, faulty, metadata, docker, kernel, proc, run, last>>

\* vethsync.Watch: starts the veth loop (spec 4.9)
VethWatch ==
    /\ proc = "running" /\ main = "vethsync"
    /\ pc' = [pc EXCEPT !["veth"] = SyncLoopEntry]
    /\ watchErr' = [watchErr EXCEPT !["veth"] = "nil"]
    /\ hist' = [hist EXCEPT !["veth"] = Logged(@, "Watch")]
    /\ main' = "wait"
    /\ UNCHANGED <<cfg, faulty, metadata, docker, kernel, proc, syncInterval, run, last>>

\* time.Sleep(syncInterval) of a loop returns
Sleep(w) ==
    /\ proc = "running" /\ pc[w] = "sleep"
    /\ pc' = [pc EXCEPT ![w] = "sync"]
    /\ hist' = [hist EXCEPT ![w] = Logged(@, "Sleep")]
    /\ UNCHANGED <<cfg, faulty, metadata, docker, kernel, main, proc, syncInterval, watchErr, run, last>>

ArpSleep == Sleep("arp")

CtSleep == Sleep("ct")

VethSleep == Sleep("veth")

\* whether a kernel call of the pass with this log returned an error
SomeCallFailed(log) == \E i \in 1..Len(log) : log[i].did \in {"neighbor_set_failed", "conntrack_delete_failed", "link_delete_failed"}

\* doSync of watcher w returns err: syncLoop logs the error and goes back to
\* time.Sleep; a panic ends the process
Returns(w, err) ==
    /\ proc' = IF err = "panic" THEN "crashed" ELSE "running"
    /\ pc' = [pc EXCEPT ![w] = "sleep"]
    /\ hist' = [hist EXCEPT ![w] = Logged(@, "doSync")]
    /\ run' = [run EXCEPT ![w] = NoRun]
    /\ UNCHANGED <<cfg, faulty, metadata, docker, main, syncInterval, watchErr>>

\* doSync of watcher w goes on to its next blocking call with locals r
GoesOn(w, r) ==
    /\ run' = [run EXCEPT ![w] = r]
    /\ UNCHANGED <<cfg, faulty, metadata, docker, main, proc, pc, syncInterval, watchErr, hist, last>>

\* ARPTableWatcher.doSync is at the blocking call named call
ArpAt(call) == proc = "running" /\ pc["arp"] = "sync" /\ run["arp"].at = call

\* the blocking call of ARPTableWatcher.doSync returns with outcome r: doSync
\* returns the error, or goes on to its next blocking call
ArpGoes(r) ==
    /\ kernel' = r.kernel
    /\ IF r.err # "nil"
       THEN /\ Returns("arp", r.err)
            /\ last' = [last EXCEPT !["arp"] = [ran |-> TRUE, err |-> r.err, log |-> r.log, ctx |-> r.ctx, entries |-> r.entries]]
       ELSE GoesOn("arp", r.run)

\* ARPTableWatcher.doSync: mc.GetNetworks
ArpDoSyncGetNetworks ==
    /\ ArpAt("call")
    /\ \E fault \in CanFail({"GetNetworks"}) : ArpGoes(ArpGetNetworks(metadata, kernel, fault, run["arp"]))

\* ARPTableWatcher.doSync: mc.GetSelfHost
ArpDoSyncGetSelfHost ==
    /\ ArpAt("GetSelfHost")
    /\ \E fault \in CanFail({"GetSelfHost"}) : ArpGoes(ArpGetSelfHost(metadata, kernel, fault, run["arp"]))

\* ARPTableWatcher.doSync: mc.GetServices, the local network, getBridgeInfo
ArpDoSyncGetServices ==
    /\ ArpAt("GetServices")
    /\ \E info \in getBridgeInfo(LocalNetworkOf(run["arp"].networks, metadata.services)), fault \in CanFail({"GetServices"}) :
        ArpGoes(ArpGetServices(metadata, kernel, fault, info, run["arp"]))

\* ARPTableWatcher.doSync: netlink.LinkByName, net.ParseCIDR
ArpDoSyncLinkByName ==
    /\ ArpAt("LinkByName")
    /\ \E fault \in CanFail({"LinkByName"}) : ArpGoes(ArpLinkByName(kernel, fault, run["arp"]))

\* ARPTableWatcher.doSync: netlink.NeighList
ArpDoSyncNeighList ==
    /\ ArpAt("NeighList")
    /\ \E fault \in CanFail({"NeighList"}) : ArpGoes(ArpNeighList(kernel, fault, run["arp"]))

\* ARPTableWatcher.doSync: mc.GetContainers, buildContainersMap
ArpDoSyncGetContainers ==
    /\ ArpAt("GetContainers")
    /\ \E fault \in CanFail({"GetContainers"}) : ArpGoes(ArpGetContainers(metadata, kernel, fault, run["arp"]))

\* ARPTableWatcher.doSync: one iteration of the loop over the listed entries;
\* the environment decides whether a NeighSet, if issued, fails
ArpDoSyncEntry ==
    /\ ArpAt("loop")
    /\ run["arp"].i <= Len(run["arp"].entries)
    /\ \E setFails \in BOOLEAN :
        LET r == run["arp"]
            step == ArpEntry(kernel, r.entries[r.i], r.ctx, setFails)
        IN  /\ kernel' = step.kernel
            /\ GoesOn("arp", [r EXCEPT !.i = NextEntry(r.i, Len(r.entries), step.rec), !.log = Append(r.log, step.rec)])

\* ARPTableWatcher.doSync: the loop is over, doSync returns nil
ArpDoSyncReturn ==
    /\ ArpAt("loop")
    /\ run["arp"].i > Len(run["arp"].entries)
    /\ kernel' = kernel
    /\ Returns("arp", "nil")
    /\ last' = [last EXCEPT !["arp"] = [ran |-> TRUE, err |-> "nil", log |-> run["arp"].log, ctx |-> run["arp"].ctx,
                                        entries |-> run["arp"].entries]]

\* one iteration of ARPTableWatcher.syncLoop after the sleep: doSync, one
\* step per blocking call
ArpDoSync ==
    \/ ArpDoSyncGetNetworks \/ ArpDoSyncGetSelfHost \/ ArpDoSyncGetServices \/ ArpDoSyncLinkByName
    \/ ArpDoSyncNeighList \/ ArpDoSyncGetContainers \/ ArpDoSyncEntry \/ ArpDoSyncReturn

\* ConntrackTableWatcher.doSync is at the blocking call named call
CtAt(call) == proc = "running" /\ pc["ct"] = "sync" /\ run["ct"].at = call

\* the blocking call of ConntrackTableWatcher.doSync returns with outcome r:
\* doSync returns the error, the goroutine panics, or doSync goes on to its
\* next blocking call
CtGoes(r) ==
    /\ kernel' = r.kernel
    /\ IF r.err # "nil"
       THEN /\ Returns("ct", r.err)
            /\ last' = [last EXCEPT !["ct"] = [ran |-> TRUE, err |-> r.err, log |-> r.log, containersMap |-> r.containersMap,
                                               entries |-> r.entries]]
       ELSE GoesOn("ct", r.run)

\* ConntrackTableWatcher.doSync: buildContainersMaps, mc.GetSelfHost
CtDoSyncGetSelfHost ==
    /\ CtAt("call")
    /\ \E fault \in CanFail({"GetSelfHost"}) : CtGoes(CtGetSelfHost(kernel, fault, run["ct"]))

\* ConntrackTableWatcher.doSync: buildContainersMaps, mc.GetContainers and
\* the map
CtDoSyncGetContainers ==
    /\ CtAt("GetContainers")
    /\ \E fault \in CanFail({"GetContainers"}) : CtGoes(CtGetContainers(metadata, kernel, fault, run["ct"]))

\* ConntrackTableWatcher.doSync: conntrack.ListDNAT
CtDoSyncListDNAT ==
    /\ CtAt("ListDNAT")
    /\ \E fault \in CanFail({"ListDNAT"}) : CtGoes(CtListDNAT(kernel, fault, run["ct"]))

\* ConntrackTableWatcher.doSync: one iteration of the loop over the listed
\* entries; the environment decides whether a CTEntryDelete, if issued, fails
CtDoSyncEntry ==
    /\ CtAt("loop")
    /\ run["ct"].i <= Len(run["ct"].entries)
    /\ \E deleteFails \in BOOLEAN :
        LET r == run["ct"]
            step == CtEntry(kernel, r.entries[r.i], r.ctx.containersMap, deleteFails)
        IN  /\ kernel' = step.kernel
            /\ GoesOn("ct", [r EXCEPT !.i = NextEntry(r.i, Len(r.entries), step.rec), !.log = Append(r.log, step.rec)])

\* ConntrackTableWatcher.doSync: the loop is over, doSync returns nil
CtDoSyncReturn ==
    /\ CtAt("loop")
    /\ run["ct"].i > Len(run["ct"].entries)
    /\ kernel' = kernel
    /\ Returns("ct", "nil")
    /\ last' = [last EXCEPT !["ct"] = [ran |-> TRUE, err |-> "nil", log |-> run["ct"].log, containersMap |-> run["ct"].ctx.containersMap,
                                       entries |-> run["ct"].entries]]

\* one iteration of ConntrackTableWatcher.syncLoop after the sleep: doSync,
\* one step per blocking call
CtDoSync == CtDoSyncGetSelfHost \/ CtDoSyncGetContainers \/ CtDoSyncListDNAT \/ CtDoSyncEntry \/ CtDoSyncReturn

\* one iteration of the veth loop after the sleep
VethDoSync ==
    /\ proc = "running" /\ pc["veth"] = "sync"
    /\ \E localBridges \in LocalBridgesChoices(LocalNetworks(metadata)) :
        \E choice \in VethChoices(kernel, docker, localBridges, VethFaults \cap faulty) :
            LET r == VethDoSyncResult(metadata, kernel, docker, choice.fault, localBridges, choice.order, choice.fails)
            IN  /\ kernel' = r.kernel
                /\ Returns("veth", r.err)
                /\ last' = [last EXCEPT !["veth"] = [ran |-> TRUE, err |-> r.err, log |-> r.log, localBridges |-> r.localBridges,
                                                     containerView |-> r.containerView, links |-> kernel.links]]


(***************************************************************************)
(* Environments the watchers are checked in                                *)
(***************************************************************************)

\* bounds of the environments
MaxContainers == 2

MaxNeigh == 2

MaxCt == 2

MaxVeths == 2

MaxDocker == 2

\* services in the list metadata serves
MaxServices == 2

MaxIntervalLen == 2

\* the sequences without repetition of at most n elements of pool
InjSeqs(pool, n) == {s \in UNION {[1..m -> pool] : m \in 0..n} : \A i, j \in 1..Len(s) : s[i] = s[j] => i = j}

Str(s) == [isStr |-> TRUE, s |-> s]

Plugin(fields) == [isMap |-> TRUE, fields |-> fields]

Network(uuid, cniConfig) == [UUID |-> uuid, hasCni |-> TRUE, cniConfig |-> cniConfig]

Container(host, network, ip, mac, ports) == [HostUUID |-> host, NetworkUUID |-> network, PrimaryIp |-> ip, PrimaryMacAddress |-> mac, Ports |-> ports]

Service(kind, name, primary, containers) == [Kind |-> kind, Name |-> name, PrimaryServiceName |-> primary, Containers |-> containers]

Link(index, name, master) == [Index |-> index, Name |-> name, MasterIndex |-> master, ParentIndex |-> 0]

Neigh(link, ip, hw) == [LinkIndex |-> link, IP |-> ip, HardwareAddr |-> hw, State |-> "NUD_STALE", Type |-> "RTN_UNICAST"]

CtFlow(dstIp, dstPort, proto, reply) == [OriginalDestinationIP |-> dstIp, OriginalDestinationPort |-> dstPort, Protocol |-> proto, ReplySourceIP |-> reply]

DockerContainer(id, mode, ns, hasEth0, parent) == [ID |-> id, NetworkMode |-> mode, NsEntry |-> ns, HasEth0 |-> hasEth0, Eth0ParentIndex |-> parent]

\* MAC addresses as metadata can spell them, and as the kernel holds them
MacA == <<"0", "2", ":", "a", "a", ":", "a", "a", ":", "a", "a", ":", "a", "a", ":", "0", "5">>

MacAUpper == <<"0", "2", ":", "A", "A", ":", "A", "A", ":", "A", "A", ":", "A", "A", ":", "0", "5">>

MacC == <<"0", "2", ":", "c", "c", ":", "c", "c", ":", "c", "c", ":", "c", "c", ":", "0", "6">>

MacD == <<"0", "2", ":", "d", "d", ":", "d", "d", ":", "d", "d", ":", "d", "d", ":", "d", "d">>

MacDUpper == <<"0", "2", ":", "D", "D", ":", "D", "D", ":", "D", "D", ":", "D", "D", ":", "D", "D">>

HwA == <<2, 170, 170, 170, 170, 5>>

HwB == <<2, 187, 187, 187, 187, 187>>

Ip5 == <<"1", "0", ".", "4", "2", ".", "0", ".", "5">>

Ip6 == <<"1", "0", ".", "4", "2", ".", "0", ".", "6">>

Ip7 == <<"1", "0", ".", "4", "2", ".", "0", ".", "7">>

Ip9 == <<"1", "0", ".", "4", "2", ".", "0", ".", "9">>

\* CNI configurations
BridgePlugin(bridge, subnet) == Plugin([type |-> Str(RancherBridge), bridge |-> Str(bridge), bridgeSubnet |-> Str(subnet)])

CniGood == [f \in {"10-rancher.conf"} |-> BridgePlugin(<<"d", "o", "c", "k", "e", "r", "0">>, <<"1", "0", ".", "4", "2", ".", "0", ".", "0", "/", "1", "6">>)]

CniMixed == [f \in {"10-rancher.conf", "99-loopback.conf"} |-> IF f = "10-rancher.conf" THEN BridgePlugin(<<"d", "o", "c", "k", "e", "r", "0">>, <<"1", "0", ".", "4", "2", ".", "0", ".", "0", "/", "1", "6">>) ELSE Plugin([type |-> Str(<<"l", "o", "o", "p", "b", "a", "c", "k">>)])]

CniOtherType == [f \in {"10-other.conf"} |-> Plugin([type |-> Str(<<"b", "r", "i", "d", "g", "e">>), bridge |-> Str(<<"d", "o", "c", "k", "e", "r", "0">>), bridgeSubnet |-> Str(<<"1", "0", ".", "4", "2", ".", "0", ".", "0", "/", "1", "6">>)])]

CniEmptyBridge == [f \in {"10-rancher.conf"} |-> BridgePlugin(<<>>, <<"1", "0", ".", "4", "2", ".", "0", ".", "0", "/", "1", "6">>)]

CniNoSubnet == [f \in {"10-rancher.conf"} |-> Plugin([type |-> Str(RancherBridge), bridge |-> Str(<<"d", "o", "c", "k", "e", "r", "0">>)])]

CniBadSubnet == [f \in {"10-rancher.conf"} |-> BridgePlugin(<<"d", "o", "c", "k", "e", "r", "0">>, <<"1", "0", ".", "4", "2", ".", "0", ".", "0">>)]

CniUnknownBridge == [f \in {"10-rancher.conf"} |-> BridgePlugin(<<"b", "r", "9">>, <<"1", "0", ".", "4", "2", ".", "0", ".", "0", "/", "1", "6">>)]

CniTwoBridges == [f \in {"10-rancher.conf", "20-rancher.conf"} |-> IF f = "10-rancher.conf" THEN BridgePlugin(<<"d", "o", "c", "k", "e", "r", "0">>, <<"1", "0", ".", "4", "2", ".", "0", ".", "0", "/", "1", "6">>) ELSE BridgePlugin(<<"b", "r", "1">>, <<"1", "0", ".", "4", "3", ".", "0", ".", "0", "/", "1", "6">>)]

\* bridge subnets net.ParseCIDR accepts in other spellings: a prefix length
\* with leading zeros, an IPv4-mapped IPv6 network, an IPv6 network
CniPaddedMask == [f \in {"10-rancher.conf"} |-> BridgePlugin(<<"d", "o", "c", "k", "e", "r", "0">>, <<"1", "0", ".", "4", "2", ".", "0", ".", "0", "/", "0", "0", "1", "6">>)]

CniMappedSubnet == [f \in {"10-rancher.conf"} |-> BridgePlugin(<<"d", "o", "c", "k", "e", "r", "0">>, <<":", ":", "f", "f", "f", "f", ":", "1", "0", ".", "4", "2", ".", "0", ".", "0", "/", "1", "1", "2">>)]

CniIpv6Subnet == [f \in {"10-rancher.conf"} |-> BridgePlugin(<<"d", "o", "c", "k", "e", "r", "0">>, <<"f", "e", "8", "0", ":", ":", "/", "6", "4">>)]

\* a plugin-config that is no map, next to a bridge plugin
CniNonMap == [f \in {"10-rancher.conf", "20-rancher.conf"} |-> IF f = "10-rancher.conf" THEN [isMap |-> FALSE, fields |-> [k \in {} |-> 0]] ELSE BridgePlugin(<<"d", "o", "c", "k", "e", "r", "0">>, <<"1", "0", ".", "4", "2", ".", "0", ".", "0", "/", "1", "6">>)]

CniPool == {CniGood, CniMixed, CniOtherType, CniEmptyBridge, CniNoSubnet, CniBadSubnet, CniUnknownBridge, CniTwoBridges,
            CniPaddedMask, CniMappedSubnet, CniIpv6Subnet, CniNonMap}

\* network-driver services
DriverService(host, mac) == Service("networkDriverService", "ipsec", "ipsec", <<Container(host, "n1", <<"1", "0", ".", "4", "2", ".", "0", ".", "2">>, mac, <<>>)>>)

SidekickService == Service("networkDriverService", "router", "ipsec", <<Container(SelfHost, "n1", <<"1", "0", ".", "4", "2", ".", "0", ".", "3">>, MacC, <<>>)>>)

GoodServices == <<SidekickService, DriverService(SelfHost, MacD)>>

\* the network of a second driver: its own bridge and subnet
CniSecond == [f \in {"10-rancher.conf"} |-> BridgePlugin(<<"b", "r", "1">>, <<"1", "0", ".", "4", "3", ".", "0", ".", "0", "/", "1", "6">>)]

MacE == <<"0", "2", ":", "e", "e", ":", "e", "e", ":", "e", "e", ":", "e", "e", ":", "e", "e">>

\* hosts that run more than one network driver: a driver service per
\* network, and one service with two containers on this host
DriverServicePool == {
    Service("networkDriverService", "ipsec", "ipsec", <<Container(SelfHost, "n1", <<"1", "0", ".", "4", "2", ".", "0", ".", "2">>, MacD, <<>>)>>),
    Service("networkDriverService", "vxlan", "vxlan", <<Container(SelfHost, "n2", <<"1", "0", ".", "4", "3", ".", "0", ".", "2">>, MacE, <<>>)>>),
    Service("networkDriverService", "flat", "flat", <<Container(SelfHost, "n1", <<"1", "0", ".", "4", "2", ".", "0", ".", "4">>, MacC, <<>>), Container("h2", "n1", <<"1", "0", ".", "4", "2", ".", "0", ".", "8">>, MacE, <<>>)>>)}

\* kernel links: loopback, the bridges, the uplink, and veths
BaseLinks == <<Link(1, <<"l", "o">>, 0), Link(2, <<"d", "o", "c", "k", "e", "r", "0">>, 0), Link(3, <<"e", "t", "h", "0">>, 0), Link(4, <<"b", "r", "1">>, 0)>>

VethPool == {Link(10, <<"v", "e", "t", "h", "r", "1", "1", "1", "1", "1", "1", "1", "1", "1", "1">>, 2), Link(11, <<"v", "e", "t", "h", "r", "2", "2", "2", "2", "2", "2", "2", "2", "2", "2">>, 2), Link(12, <<"v", "e", "t", "h", "3", "3", "3", "3", "3", "3", "3">>, 2)}

\* a veth of no bridge and a veth of a bridge no network names
VethOddPool == {Link(10, <<"v", "e", "t", "h", "r", "1", "1", "1", "1", "1", "1", "1", "1", "1", "1">>, 2), Link(13, <<"v", "e", "t", "h", "r", "4", "4", "4", "4", "4", "4", "4", "4", "4", "4">>, 0), Link(14, <<"v", "e", "t", "h", "r", "5", "5", "5", "5", "5", "5", "5", "5", "5", "5">>, 3)}

\* link lists: the fixed links, then veths in index order
LinkChoices(pool) == {BaseLinks \o s : s \in {t \in InjSeqs(pool, MaxVeths) : \A i, j \in 1..Len(t) : i < j => t[i].Index < t[j].Index}}

\* the ARP watcher's environments: containers and neighbor entries whose
\* MACs agree, differ, or differ in spelling only
ArpContainerPool == {
    Container(SelfHost, "n1", Ip5, MacA, <<>>),
    Container(SelfHost, "n1", Ip5, MacAUpper, <<>>),
    Container("h2", "n1", Ip6, MacC, <<>>)}

NeighPool == {
    Neigh(2, <<10, 42, 0, 5>>, HwB),
    Neigh(2, <<10, 42, 0, 5>>, HwA),
    Neigh(2, <<10, 42, 0, 6>>, HwB)}

\* containers without a usable MAC or of another network, and neighbor
\* entries of another link or outside the subnet
ArpOddContainerPool == {
    Container(SelfHost, "n1", Ip5, <<>>, <<>>),
    Container(SelfHost, "n2", Ip6, MacA, <<>>),
    Container("h2", "n1", Ip6, MacC, <<>>)}

NeighOddPool == {
    Neigh(2, <<10, 42, 0, 5>>, HwB),
    Neigh(2, <<10, 42, 0, 6>>, HwB),
    Neigh(3, <<10, 42, 0, 5>>, HwB),
    Neigh(2, <<10, 43, 0, 5>>, HwB)}

\* neighbor tables: at most one entry per (LinkIndex, IP)
NeighChoices(pool) == {s \in InjSeqs(pool, MaxNeigh) : \A i, j \in 1..Len(s) : (s[i].LinkIndex = s[j].LinkIndex /\ s[i].IP = s[j].IP) => i = j}

ArpServiceChoices == {<<SidekickService, DriverService(SelfHost, mac)>> : mac \in {MacDUpper, <<>>}}

ArpConfigServiceChoices == {GoodServices, <<DriverService("h2", MacD)>>, <<SidekickService>>}

\* the conntrack watcher's environments: published ports and flows that
\* reply from the right or from a stale address
CtContainerPool == {
    Container(SelfHost, "n1", Ip5, MacA, <<<<"0", ".", "0", ".", "0", ".", "0", ":", "8", "0", "8", "0", ":", "8", "0", "/", "t", "c", "p">>>>),
    Container(SelfHost, "n1", Ip7, MacA, <<<<"1", "0", ".", "0", ".", "0", ".", "1", ":", "8", "0", "8", "0", ":", "8", "0", "/", "t", "c", "p">>, <<"0", ".", "0", ".", "0", ".", "0", ":", "8", "0", "8", "0", ":", "8", "0", "/", "t", "c", "p">>>>),
    Container("h2", "n1", Ip6, MacC, <<<<"0", ".", "0", ".", "0", ".", "0", ":", "8", "0", "8", "0", ":", "8", "0", "/", "t", "c", "p">>>>)}

CtPool == {
    CtFlow(<<"1", "0", ".", "0", ".", "0", ".", "1">>, <<"8", "0", "8", "0">>, <<"t", "c", "p">>, Ip9),
    CtFlow(<<"1", "0", ".", "0", ".", "0", ".", "1">>, <<"8", "0", "8", "0">>, <<"t", "c", "p">>, Ip5),
    CtFlow(<<"1", "0", ".", "0", ".", "0", ".", "2">>, <<"8", "0", "8", "0">>, <<"t", "c", "p">>, Ip9)}

\* ports of other shapes, and flows of other ports and protocols
CtOddContainerPool == {
    Container(SelfHost, "n1", Ip5, MacA, <<<<"0", ".", "0", ".", "0", ".", "0", ":", "8", "0", "8", "0", ":", "8", "0", "/", "t", "c", "p">>>>),
    Container(SelfHost, "n1", Ip6, MacA, <<<<"8", "0", "8", "0", ":", "8", "0", "/", "t", "c", "p">>>>),
    Container(SelfHost, "n1", Ip6, MacA, <<<<"0", ".", "0", ".", "0", ".", "0", ":", "8", "0", "8", "0", ":", "8", "0">>>>),
    Container(SelfHost, "n1", Ip6, MacA, <<>>)}

CtOddPool == {
    CtFlow(<<"1", "0", ".", "0", ".", "0", ".", "1">>, <<"8", "0", "8", "0">>, <<"t", "c", "p">>, Ip9),
    CtFlow(<<"1", "0", ".", "0", ".", "0", ".", "1">>, <<"9", "0", "9", "0">>, <<"t", "c", "p">>, Ip9),
    CtFlow(<<"1", "0", ".", "0", ".", "0", ".", "1">>, <<"8", "0", "8", "0">>, <<"u", "d", "p">>, Ip9)}

\* flows that reply from the container of their specific key or from the
\* container of the generic key
CtLookupPool == {
    CtFlow(<<"1", "0", ".", "0", ".", "0", ".", "1">>, <<"8", "0", "8", "0">>, <<"t", "c", "p">>, Ip7),
    CtFlow(<<"1", "0", ".", "0", ".", "0", ".", "1">>, <<"8", "0", "8", "0">>, <<"t", "c", "p">>, Ip5),
    CtFlow(<<"1", "0", ".", "0", ".", "0", ".", "2">>, <<"8", "0", "8", "0">>, <<"t", "c", "p">>, Ip7)}

\* the veth watcher's environments: containers whose namespace can or cannot
\* be entered
DockerPool == {
    DockerContainer("c1", "default", "ok", TRUE, 10),
    DockerContainer("c1", "default", "fails", TRUE, 10),
    DockerContainer("c4", "default", "ok", TRUE, 11)}

\* host-networked containers and containers without eth0
DockerOddPool == {
    DockerContainer("c1", "default", "ok", TRUE, 10),
    DockerContainer("c2", "host", "ok", TRUE, 0),
    DockerContainer("c3", "default", "ok", FALSE, 0)}

\* container lists: at most one container per ID
DockerChoices(pool) == {s \in InjSeqs(pool, MaxDocker) : \A i, j \in 1..Len(s) : s[i].ID = s[j].ID => i = j}

VethNetworkChoices == {<<Network("n1", c)>> : c \in {CniGood, CniMixed, CniTwoBridges, CniUnknownBridge, CniNonMap}}

\* interval flags: every string of at most MaxIntervalLen characters of a
\* small alphabet, the strings of the documentation, and the int64 edges
IntervalAlphabet == {"0", "3", "-", "+", "a"}

IntervalStrs == UNION {[1..m -> IntervalAlphabet] : m \in 0..MaxIntervalLen} \cup {
    <<"3", "0">>, <<"a", "b", "c">>, <<"1", "2", "0">>, <<"3", "0", "s">>, <<" ", "3", "0">>,
    <<"9", "2", "2", "3", "3", "7", "2", "0", "3", "6">>, <<"9", "2", "2", "3", "3", "7", "2", "0", "3", "7">>, <<"-", "9", "2", "2", "3", "3", "7", "2", "0", "3", "7">>,
    <<"9", "2", "2", "3", "3", "7", "2", "0", "3", "6", "8", "5", "4", "7", "7", "5", "8", "0", "7">>, <<"9", "2", "2", "3", "3", "7", "2", "0", "3", "6", "8", "5", "4", "7", "7", "5", "8", "0", "8">>}

DefaultCfg == [arp |-> <<>>, ct |-> <<>>]

\* an environment in which each watcher finds something to repair
BaseMetadata == [networks |-> <<Network("n1", CniGood)>>, services |-> GoodServices,
                 containers |-> <<Container(SelfHost, "n1", Ip5, MacA, <<<<"0", ".", "0", ".", "0", ".", "0", ":", "8", "0", "8", "0", ":", "8", "0", "/", "t", "c", "p">>>>), Container("h2", "n1", Ip6, MacC, <<>>)>>]

BaseKernel == [links |-> BaseLinks \o <<Link(10, <<"v", "e", "t", "h", "r", "1", "1", "1", "1", "1", "1", "1", "1", "1", "1">>, 2), Link(11, <<"v", "e", "t", "h", "r", "2", "2", "2", "2", "2", "2", "2", "2", "2", "2">>, 2)>>,
               neigh |-> <<Neigh(2, <<10, 42, 0, 5>>, HwB), Neigh(2, <<10, 42, 0, 6>>, HwB)>>,
               ct |-> <<CtFlow(<<"1", "0", ".", "0", ".", "0", ".", "1">>, <<"8", "0", "8", "0">>, <<"t", "c", "p">>, Ip9), CtFlow(<<"1", "0", ".", "0", ".", "0", ".", "1">>, <<"8", "0", "8", "0">>, <<"t", "c", "p">>, Ip5)>>]

BaseDocker == <<DockerContainer("c1", "default", "ok", TRUE, 10)>>


(***************************************************************************)
(* Specifications                                                          *)
(***************************************************************************)

\* main.run is about to start the watchers
Started == main = "conntracksync" /\ LoopsIdle

\* the environments of the ARP watcher's repairs: neighbor tables against
\* containers and against driver MACs
ArpEnvs ==
    \/ /\ metadata \in [networks : {<<Network("n1", CniGood)>>}, services : {GoodServices}, containers : InjSeqs(ArpContainerPool, MaxContainers)]
       /\ kernel \in [links : {BaseLinks}, neigh : NeighChoices(NeighPool), ct : {<<>>}]
    \/ /\ metadata \in [networks : {<<Network("n1", CniGood)>>}, services : {GoodServices}, containers : InjSeqs(ArpOddContainerPool, MaxContainers)]
       /\ kernel \in [links : {BaseLinks}, neigh : NeighChoices(NeighOddPool), ct : {<<>>}]
    \/ /\ metadata \in [networks : {<<Network("n1", CniGood)>>}, services : ArpServiceChoices, containers : {<<Container(SelfHost, "n1", Ip5, MacA, <<>>), Container("h2", "n1", Ip6, MacC, <<>>)>>}]
       /\ kernel \in [links : {BaseLinks}, neigh : NeighChoices(NeighPool), ct : {<<>>}]

\* the environments of the ARP watcher's discovery: CNI configurations
\* against services
ArpConfigEnvs ==
    /\ metadata \in [networks : {<<Network("n1", c)>> : c \in CniPool} \cup {<<>>, <<Network("n2", CniOtherType), Network("n1", CniGood)>>},
                     services : ArpConfigServiceChoices, containers : {<<Container(SelfHost, "n1", Ip5, MacA, <<>>), Container("h2", "n1", Ip6, MacC, <<>>)>>}]
    /\ kernel = BaseKernel

\* the environments of the ARP watcher's driver selection: one or more
\* network-driver services on this host, against the order of the networks
ArpDriverEnvs ==
    /\ metadata \in [networks : {<<Network("n1", CniGood), Network("n2", CniSecond)>>, <<Network("n2", CniSecond), Network("n1", CniGood)>>},
                     services : InjSeqs(DriverServicePool, MaxServices),
                     containers : {<<Container(SelfHost, "n1", Ip5, MacA, <<>>), Container("h2", "n1", Ip6, MacC, <<>>)>>}]
    /\ kernel \in [links : {BaseLinks}, neigh : NeighChoices(NeighPool), ct : {<<>>}]

\* the ARP watcher alone
InitArp ==
    /\ Started
    /\ faulty = Calls
    /\ cfg = DefaultCfg
    /\ docker = BaseDocker
    /\ (ArpEnvs \/ ArpConfigEnvs \/ ArpDriverEnvs)

NextArp == CtWatch \/ ArpWatch \/ ArpSleep \/ ArpDoSync

SpecArp == InitArp /\ [][NextArp]_vars

\* the environments of the conntrack watcher: conntrack tables against
\* published ports
CtEnvs ==
    \/ /\ metadata \in [networks : {<<Network("n1", CniGood)>>}, services : {GoodServices}, containers : InjSeqs(CtContainerPool, MaxContainers)]
       /\ kernel \in [links : {BaseLinks}, neigh : {<<>>}, ct : InjSeqs(CtPool, MaxCt)]
    \/ /\ metadata \in [networks : {<<Network("n1", CniGood)>>}, services : {GoodServices}, containers : InjSeqs(CtOddContainerPool, MaxContainers)]
       /\ kernel \in [links : {BaseLinks}, neigh : {<<>>}, ct : InjSeqs(CtOddPool, MaxCt)]

\* the environments of the conntrack watcher's lookup: a specific and a
\* generic key that map to different containers
CtLookupEnvs ==
    /\ metadata \in [networks : {<<Network("n1", CniGood)>>}, services : {GoodServices}, containers : InjSeqs(CtContainerPool, MaxContainers)]
    /\ kernel \in [links : {BaseLinks}, neigh : {<<>>}, ct : InjSeqs(CtLookupPool, MaxCt)]

\* the conntrack watcher alone
InitCt ==
    /\ Started
    /\ faulty = Calls
    /\ cfg = DefaultCfg
    /\ docker = BaseDocker
    /\ (CtEnvs \/ CtLookupEnvs)

NextCt == CtWatch \/ CtSleep \/ CtDoSync

SpecCt == InitCt /\ [][NextCt]_vars

\* the environments of the veth watcher's cleanup: links against runtime
\* containers
VethEnvs ==
    \/ /\ metadata = [networks |-> <<Network("n1", CniGood)>>, services |-> GoodServices, containers |-> <<>>]
       /\ docker \in DockerChoices(DockerPool)
       /\ kernel \in [links : LinkChoices(VethPool), neigh : {<<>>}, ct : {<<>>}]
    \/ /\ metadata = [networks |-> <<Network("n1", CniGood)>>, services |-> GoodServices, containers |-> <<>>]
       /\ docker \in DockerChoices(DockerOddPool)
       /\ kernel \in [links : LinkChoices(VethOddPool), neigh : {<<>>}, ct : {<<>>}]

\* the environments of the veth watcher's discovery: CNI configurations
\* against services
VethConfigEnvs ==
    /\ metadata \in [networks : VethNetworkChoices, services : {GoodServices, <<DriverService("h2", MacD)>>}, containers : {<<>>}]
    /\ docker \in {<<>>, BaseDocker}
    /\ kernel = BaseKernel

\* the veth watcher alone
InitVeth ==
    /\ Started
    /\ faulty = Calls
    /\ cfg = DefaultCfg
    /\ (VethEnvs \/ VethConfigEnvs)

NextVeth == CtWatch \/ ArpWatch \/ VethWatch \/ VethSleep \/ VethDoSync

SpecVeth == InitVeth /\ [][NextVeth]_vars

\* Watch and the loops' sleeps, over the interval flags
InitWatch ==
    /\ Started
    /\ faulty = Calls
    /\ cfg \in [arp : IntervalStrs, ct : IntervalStrs]
    /\ metadata = BaseMetadata
    /\ docker = BaseDocker
    /\ kernel = BaseKernel

NextWatch == CtWatch \/ ArpWatch \/ VethWatch \/ CtSleep \/ ArpSleep \/ VethSleep

SpecWatch == InitWatch /\ [][NextWatch]_vars

\* the whole process: the three loops running concurrently
SysContainerChoices == {
    <<Container(SelfHost, "n1", Ip5, MacA, <<<<"0", ".", "0", ".", "0", ".", "0", ":", "8", "0", "8", "0", ":", "8", "0", "/", "t", "c", "p">>>>)>>,
    <<Container(SelfHost, "n1", Ip5, MacA, <<<<"0", ".", "0", ".", "0", ".", "0", ":", "8", "0", "8", "0", ":", "8", "0">>>>)>>}

SysKernel == [links |-> BaseLinks \o <<Link(10, <<"v", "e", "t", "h", "r", "1", "1", "1", "1", "1", "1", "1", "1", "1", "1">>, 2), Link(11, <<"v", "e", "t", "h", "r", "2", "2", "2", "2", "2", "2", "2", "2", "2", "2">>, 2)>>,
              neigh |-> <<Neigh(2, <<10, 42, 0, 5>>, HwB)>>,
              ct |-> <<CtFlow(<<"1", "0", ".", "0", ".", "0", ".", "1">>, <<"8", "0", "8", "0">>, <<"t", "c", "p">>, Ip9)>>]

Init ==
    /\ Started
    /\ faulty = Calls
    /\ cfg = [arp |-> <<>>, ct |-> <<"3", "0">>]
    /\ metadata \in [networks : {<<Network("n1", CniGood)>>}, services : {GoodServices}, containers : SysContainerChoices]
    /\ docker = BaseDocker
    /\ kernel = SysKernel

Next == CtWatch \/ ArpWatch \/ VethWatch \/ CtSleep \/ ArpSleep \/ VethSleep \/ CtDoSync \/ ArpDoSync \/ VethDoSync

Spec == Init /\ [][Next]_vars

\* the scheduler runs every goroutine that can run
FairSpec == Spec /\ WF_vars(CtWatch) /\ WF_vars(ArpWatch) /\ WF_vars(VethWatch) /\ WF_vars(CtSleep) /\ WF_vars(ArpSleep) /\ WF_vars(VethSleep) /\ WF_vars(CtDoSync) /\ WF_vars(ArpDoSync) /\ WF_vars(VethDoSync)


(***************************************************************************)
(* Properties of the ARP watcher                                           *)
(***************************************************************************)

\* the step taken ends a pass of the loop of watcher w: doSync returns
PassStep(w) == hist[w][2] = "Sleep" /\ hist'[w][2] = "doSync"

\* the step taken is a step of doSync of watcher w
StepOf(w) == pc[w] = "sync" /\ (pc'[w] # pc[w] \/ run'[w] # run[w])

\* the latest ARP pass ran its loop over the neighbor entries to the end
ArpPassCompleted == last["arp"].ran /\ last["arp"].err = "nil"

\* e is on the local bridge and inside BridgeSubnet, as the pass resolved them
ArpInScope(e) == e.LinkIndex = last["arp"].ctx.bridgeLinkIndex /\ Contains(last["arp"].ctx.bridgeSubnet, e.IP)

\* the metadata containers of the local network whose PrimaryIp is the IP of e
ArpOwners(e) == {i \in 1..Len(metadata.containers) :
                    /\ metadata.containers[i].NetworkUUID = last["arp"].ctx.networkUUID
                    /\ metadata.containers[i].PrimaryIp = IPString(e.IP)}

\* the container metadata gives for the IP of e (the last one listed)
ArpOwner(e) == metadata.containers[CHOOSE i \in ArpOwners(e) : \A j \in ArpOwners(e) : j <= i]

\* the expected MAC of e as metadata spells it
ArpExpectedText(e) == IF ArpOwner(e).HostUUID = SelfHost THEN ArpOwner(e).PrimaryMacAddress ELSE last["arp"].ctx.networkDriverMacAddress

\* e carries the expected MAC
ArpHasExpectedMac(e) == ParseMAC(ArpExpectedText(e)).ok /\ e.HardwareAddr = ParseMAC(ArpExpectedText(e)).hw

\* the latest pass issued a neighbor_set for the entry of e and it failed
ArpSetFailed(e) == \E r \in 1..Len(last["arp"].log) :
                      /\ last["arp"].log[r].did = "neighbor_set_failed"
                      /\ last["arp"].log[r].entry.LinkIndex = e.LinkIndex
                      /\ last["arp"].log[r].entry.IP = e.IP

\* the latest pass replaced the MAC of the entry of e
ArpRepaired(e) == \E r \in 1..Len(last["arp"].log) :
                     /\ last["arp"].log[r].did = "neighbor_set"
                     /\ last["arp"].log[r].entry.LinkIndex = e.LinkIndex
                     /\ last["arp"].log[r].entry.IP = e.IP
                     /\ last["arp"].log[r].entry.HardwareAddr # e.HardwareAddr

\* C1 as stated: after an ARP pass that completes, every neighbor entry on
\* the local bridge and inside BridgeSubnet whose IP belongs to a metadata
\* container of the local network has the expected MAC (PrimaryMacAddress of
\* a container on this host, the driver MAC for one on another host)
C1_ArpConvergenceAsStated ==
    ArpPassCompleted =>
        \A i \in 1..Len(kernel.neigh) :
            (ArpInScope(kernel.neigh[i]) /\ ArpOwners(kernel.neigh[i]) # {}) => ArpHasExpectedMac(kernel.neigh[i])

\* C1 amended: after an ARP pass that completes, every such neighbor entry
\* whose expected MAC text parses as a MAC address, and whose neighbor_set in
\* that pass did not fail, has the expected MAC
C1_ArpConvergence ==
    ArpPassCompleted =>
        \A i \in 1..Len(kernel.neigh) :
            (/\ ArpInScope(kernel.neigh[i]) /\ ArpOwners(kernel.neigh[i]) # {}
             /\ ParseMAC(ArpExpectedText(kernel.neigh[i])).ok
             /\ ~ArpSetFailed(kernel.neigh[i])) => ArpHasExpectedMac(kernel.neigh[i])

\* a completed pass repaired the entry of a container on this host and the
\* entry of a container on another host
C1_Witness ==
    /\ ArpPassCompleted
    /\ \E i, j \in 1..Len(kernel.neigh) :
        /\ ArpInScope(kernel.neigh[i]) /\ ArpOwners(kernel.neigh[i]) # {} /\ ArpOwner(kernel.neigh[i]).HostUUID = SelfHost
        /\ ArpRepaired(kernel.neigh[i]) /\ ArpHasExpectedMac(kernel.neigh[i])
        /\ ArpInScope(kernel.neigh[j]) /\ ArpOwners(kernel.neigh[j]) # {} /\ ArpOwner(kernel.neigh[j]).HostUUID # SelfHost
        /\ ArpRepaired(kernel.neigh[j]) /\ ArpHasExpectedMac(kernel.neigh[j])


(***************************************************************************)
(* Properties of the conntrack watcher                                     *)
(***************************************************************************)

\* the latest conntrack pass ran its loop over the DNAT entries to the end
CtPassCompleted == last["ct"].ran /\ last["ct"].err = "nil"

\* published-port key -> container, as metadata gives it
CtPublished == buildContainersMaps(metadata.containers).map

\* the published-port key e matches: its specific key hostIp:port/protocol,
\* or else the generic key 0.0.0.0:port/protocol
CtKeyOf(e) ==
    LET specific == e.OriginalDestinationIP \o <<":">> \o e.OriginalDestinationPort \o <<"/">> \o e.Protocol
        generic == <<"0", ".", "0", ".", "0", ".", "0", ":">> \o e.OriginalDestinationPort \o <<"/">> \o e.Protocol
    IN  IF specific \in DOMAIN CtPublished THEN <<specific>>
        ELSE IF generic \in DOMAIN CtPublished THEN <<generic>>
        ELSE <<>>

\* e matches a published-port key and does not reply from the PrimaryIp of
\* the container mapped to that key
CtStale(e) == CtKeyOf(e) # <<>> /\ e.ReplySourceIP # CtPublished[CtKeyOf(e)[1]].PrimaryIp

\* the latest pass issued a conntrack_delete for e and it failed
CtDeleteFailed(e) == \E r \in 1..Len(last["ct"].log) : last["ct"].log[r].did = "conntrack_delete_failed" /\ last["ct"].log[r].entry = e

\* the latest pass deleted an entry it had matched through such a key
CtDeleted(via) == \E r \in 1..Len(last["ct"].log) :
                     /\ last["ct"].log[r].did = "conntrack_delete" /\ last["ct"].log[r].via = via
                     /\ \A i \in 1..Len(kernel.ct) : kernel.ct[i] # last["ct"].log[r].entry

\* C2 as stated: after a conntrack pass that completes, the conntrack table
\* holds no DNAT entry that matches a published-port key of a local container
\* (specific, or else generic) while its ReplySourceIp differs from the
\* PrimaryIp of the container mapped to that key
C2_CtConvergenceAsStated == CtPassCompleted => \A i \in 1..Len(kernel.ct) : ~CtStale(kernel.ct[i])

\* C2 amended: after a conntrack pass that completes, the only such entries
\* left in the conntrack table are those whose conntrack_delete failed in
\* that pass
C2_CtConvergence == CtPassCompleted => \A i \in 1..Len(kernel.ct) : CtStale(kernel.ct[i]) => CtDeleteFailed(kernel.ct[i])

\* a completed pass deleted one entry matched by its specific key and one
\* matched by the generic key, and no stale entry is left
C2_Witness ==
    /\ CtPassCompleted
    /\ CtDeleted("specific") /\ CtDeleted("generic")
    /\ \A i \in 1..Len(kernel.ct) : ~CtStale(kernel.ct[i])


(***************************************************************************)
(* Properties of the veth cleanup                                          *)
(***************************************************************************)

\* the latest veth reconciliation ran its cleanup to the end
VethPassCompleted == last["veth"].ran /\ last["veth"].err = "nil"

\* the indices of the local bridges among the links the reconciliation scanned
VethLocalBridgeIndices == {last["veth"].links[i].Index : i \in {j \in 1..Len(last["veth"].links) : last["veth"].links[j].Name \in last["veth"].localBridges}}

\* a live container that is not host-networked has an eth0 whose ParentIndex
\* is the index of the link
VethInUse(link) == \E i \in 1..Len(docker) : docker[i].NetworkMode # "host" /\ docker[i].HasEth0 /\ docker[i].Eth0ParentIndex = link.Index

\* C3: a veth reconciliation deletes a link only if its name starts with the
\* configured prefix, its MasterIndex is the index of a local bridge, and no
\* live non-host-networked container's eth0 has the link's index as
\* ParentIndex, also when a namespace entry or an eth0 lookup fails
C3_VethSafety ==
    VethPassCompleted =>
        \A r \in 1..Len(last["veth"].log) :
            last["veth"].log[r].did = "link_delete" =>
                /\ HasPrefix(last["veth"].log[r].link.Name, VethPrefix)
                /\ last["veth"].log[r].link.MasterIndex \in VethLocalBridgeIndices
                /\ ~VethInUse(last["veth"].log[r].link)


(***************************************************************************)
(* Properties of the passes of all three watchers                          *)
(***************************************************************************)

\* the pass with this log issued a kernel mutation (whether or not it failed)
IssuedMutation(log) == \E r \in 1..Len(log) : log[r].did \in {"neighbor_set", "neighbor_set_failed", "conntrack_delete", "conntrack_delete_failed", "link_delete", "link_delete_failed"}

\* the latest pass of watcher w completed and none of its kernel calls failed
CleanPass(w) == last[w].ran /\ last[w].err = "nil" /\ ~SomeCallFailed(last[w].log)

\* C4: for each watcher, a pass that follows a completed pass on unchanged
\* inputs (metadata, runtime containers, kernel tables) issues no
\* neighbor_set, no conntrack_delete and no link_delete, whatever the textual
\* form of the MAC addresses in metadata
C4_Idempotence == [][\A w \in Watchers : (CleanPass(w) /\ PassStep(w)) => ~IssuedMutation(last'[w].log)]_vars


\* a MAC address of five groups, which net.ParseMAC rejects
MacShort == <<"0", "2", ":", "d", "d", ":", "d", "d", ":", "d", "d", ":", "d", "d">>

Ip8 == <<"1", "0", ".", "4", "2", ".", "0", ".", "8">>

\* a host where each of the three loops has entries to repair and where the
\* metadata service, the runtime and the netlink lists answer, so that only
\* the per-entry steps fail. The neighbor table holds four entries that differ
\* from metadata: one of a remote container while the driver's MAC does not
\* parse (watcher.go 225-228), one of a local container without a MAC
\* (209-212), and two of local containers whose MAC parses, each of which
\* NeighSet may refuse; there are two stale flows and two dangling veths
EachEnvs ==
    /\ metadata = [networks |-> <<Network("n1", CniGood)>>, services |-> <<SidekickService, DriverService(SelfHost, MacShort)>>,
                   containers |-> <<Container("h2", "n1", Ip6, MacC, <<>>),
                                    Container(SelfHost, "n1", Ip5, <<>>, <<<<"0", ".", "0", ".", "0", ".", "0", ":", "8", "0", "8", "0", ":", "8", "0", "/", "t", "c", "p">>>>),
                                    Container(SelfHost, "n1", Ip7, MacA, <<>>),
                                    Container(SelfHost, "n1", Ip8, MacC, <<>>)>>]
    /\ docker = <<>>
    /\ kernel = [links |-> BaseKernel.links,
                 neigh |-> <<Neigh(2, <<10, 42, 0, 6>>, HwB), Neigh(2, <<10, 42, 0, 5>>, HwB), Neigh(2, <<10, 42, 0, 7>>, HwB), Neigh(2, <<10, 42, 0, 8>>, HwB)>>,
                 ct |-> <<CtFlow(<<"1", "0", ".", "0", ".", "0", ".", "1">>, <<"8", "0", "8", "0">>, <<"t", "c", "p">>, Ip9),
                          CtFlow(<<"1", "0", ".", "0", ".", "0", ".", "2">>, <<"8", "0", "8", "0">>, <<"t", "c", "p">>, Ip9)>>]

\* the three loops side by side on a host where each has entries to repair,
\* over the neighbor tables, conntrack tables and runtime containers
InitEach ==
    /\ Started
    /\ faulty = {}
    /\ cfg = DefaultCfg
    /\ EachEnvs

\* the three loops side by side
SpecEach == InitEach /\ [][Next]_vars

\* the context of the ARP pass just taken, with the map it looked entries up in
ArpCtxOfStep ==
    [bridge |-> last'["arp"].ctx.bridge, bridgeLinkIndex |-> last'["arp"].ctx.bridgeLinkIndex, bridgeSubnet |-> last'["arp"].ctx.bridgeSubnet,
     networkUUID |-> last'["arp"].ctx.networkUUID, networkDriverMacAddress |-> last'["arp"].ctx.networkDriverMacAddress,
     containersMap |-> buildContainersMap(metadata.containers, [UUID |-> last'["arp"].ctx.networkUUID])]

\* the ARP pass just ended handled every neighbor entry NeighList gave it as
\* that entry alone requires: what it did with entry j is what the loop body does with entry j
\* when its neighbor_set succeeds, or the same neighbor_set failing, and the
\* table holds what was sent exactly where the neighbor_set succeeded
ArpEntriesIsolated ==
    LET entries == last'["arp"].entries
    IN  /\ Len(last'["arp"].log) = Len(entries)
        /\ Len(kernel'.neigh) = Len(entries)
        /\ \A j \in 1..Len(entries) :
            LET rec == last'["arp"].log[j]
                alone == ArpEntry(kernel, entries[j], ArpCtxOfStep, FALSE).rec
            IN  /\ rec.entry = entries[j]
                /\ \/ rec = alone
                   \/ rec.did = "neighbor_set_failed" /\ alone.did = "neighbor_set" /\ rec.sent = alone.sent
                /\ kernel'.neigh[j] = IF rec.did = "neighbor_set" THEN rec.sent ELSE entries[j]

\* the conntrack pass just ended handled every DNAT entry ListDNAT gave it as that entry alone
\* requires, and the table lost exactly the entries whose delete succeeded
CtEntriesIsolated ==
    LET entries == last'["ct"].entries
    IN  /\ Len(last'["ct"].log) = Len(entries)
        /\ \A j \in 1..Len(entries) :
            LET rec == last'["ct"].log[j]
                alone == CtEntry(kernel, entries[j], CtPublished, FALSE).rec
            IN  /\ rec.entry = entries[j]
                /\ \/ rec = alone
                   \/ rec.did = "conntrack_delete_failed" /\ alone.did = "conntrack_delete" /\ rec.expected = alone.expected
        /\ kernel'.ct = SelectSeq(entries, LAMBDA e : \A j \in 1..Len(entries) : entries[j] = e => last'["ct"].log[j].did # "conntrack_delete")

\* the dangling veths of the reconciliation just taken: the links with the
\* prefix on a local bridge whose index no container reported
VethDanglingOfStep ==
    {l \in {kernel.links[i] : i \in 1..Len(kernel.links)} :
        /\ HasPrefix(l.Name, VethPrefix)
        /\ l.MasterIndex \in {kernel.links[i].Index : i \in {j \in 1..Len(kernel.links) : kernel.links[j].Name \in last'["veth"].localBridges}}
        /\ Itoa(l.Index) \notin last'["veth"].containerView}

\* the cleanup just taken issued one link_delete per dangling veth, and the
\* links lost exactly the veths whose delete succeeded
VethEntriesIsolated ==
    /\ Len(last'["veth"].log) = Cardinality(VethDanglingOfStep)
    /\ {last'["veth"].log[r].link : r \in 1..Len(last'["veth"].log)} = VethDanglingOfStep
    /\ kernel'.links = SelectSeq(kernel.links, LAMBDA l : \A r \in 1..Len(last'["veth"].log) : last'["veth"].log[r].link = l => last'["veth"].log[r].did # "link_delete")

\* C5: within one reconciliation step a per-entry error (MAC parse failure,
\* neighbor_set failure, conntrack_delete failure, link_delete failure) never
\* prevents the processing of the entries that follow: every entry of the
\* step is examined and repaired exactly as if the failing entries had
\* succeeded
C5_Isolation ==
    [][/\ (PassStep("arp") /\ last'["arp"].err = "nil") => ArpEntriesIsolated
       /\ (PassStep("ct") /\ last'["ct"].err = "nil") => CtEntriesIsolated
       /\ (PassStep("veth") /\ last'["veth"].err = "nil") => VethEntriesIsolated]_vars

\* position i of the log is a per-entry error and a later position a repair
RepairAfterError(log) == \E i, j \in 1..Len(log) :
                            /\ i < j
                            /\ log[i].did \in {"parse_error", "neighbor_set_failed", "conntrack_delete_failed", "link_delete_failed"}
                            /\ log[j].did \in {"neighbor_set", "conntrack_delete", "link_delete"}

\* the latest pass of each watcher completed and repaired an entry that
\* follows a failing entry: the ARP pass met an expected MAC that does not
\* parse and a NeighSet that failed, and the neighbor entry after both has the
\* MAC it sent; the DNAT entry and the veth after the failing one are gone
C5_Witness ==
    /\ \A w \in Watchers : last[w].ran /\ last[w].err = "nil" /\ RepairAfterError(last[w].log)
    /\ \E i, j, n \in 1..Len(last["arp"].log) :
        /\ i < n /\ j < n
        /\ last["arp"].log[i].did = "parse_error"
        /\ last["arp"].log[j].did = "neighbor_set_failed"
        /\ last["arp"].log[n].did = "neighbor_set"
        /\ kernel.neigh[n] = last["arp"].log[n].sent
        /\ kernel.neigh[i] = last["arp"].log[i].entry /\ kernel.neigh[j] = last["arp"].log[j].entry
    /\ Len(kernel.ct) = 1 /\ CtDeleteFailed(kernel.ct[1])
    /\ \E r \in 1..Len(last["veth"].log) : \A i \in 1..Len(kernel.links) : kernel.links[i] # last["veth"].log[r].link


(***************************************************************************)
(* Properties of the loops                                                 *)
(***************************************************************************)

\* the watchers whose Watch and syncLoop are in the source
CodeWatchers == {"arp", "ct"}

\* C6: a panic raised inside a reconciliation step of a watcher loop does
\* not kill the process or end the loop: after it the process is running and
\* the loop is at its sleep, from where it reconciles again on the next tick
C6_PanicRecovered == \A w \in CodeWatchers : (last[w].ran /\ last[w].err = "panic") => (proc = "running" /\ pc[w] = "sleep")

\* C7: no error returned by doSync ends the ARP loop or the conntrack loop:
\* under fairness a pass is always eventually followed by a sleep and the
\* sleep by another pass
C7_LoopsContinue ==
    \A w \in CodeWatchers :
        /\ (hist[w][2] = "doSync") ~> (hist[w][2] = "Sleep")
        /\ (hist[w][2] = "Sleep") ~> (hist[w][2] = "doSync")

\* C8: each loop sleeps first and reconciles afterwards: a pass is always
\* preceded by a sleep of the same loop, so no pass follows Watch or another
\* pass directly, and a loop that Watch just started has read and changed
\* nothing
C8_SleepFirst ==
    \A w \in CodeWatchers :
        /\ hist[w][2] = "doSync" => hist[w][1] = "Sleep"
        /\ hist[w][2] = "Watch" => (pc[w] = "sleep" /\ ~last[w].ran)
        /\ last[w].ran => (hist[w][1] = "doSync" \/ hist[w][2] = "doSync")

\* both loops have run a pass, each after a sleep
C8_Witness == \A w \in CodeWatchers : hist[w] = <<"Sleep", "doSync">> /\ last[w].ran

\* n * 10^9 on the unbounded magnitude of a sequence of decimal digits
SecondsToNanos(digits) == MulAdd(MulAdd(MulAdd(Magnitude(digits), 1000, 0), 1000, 0), 1000, 0)

\* the duration d is the integer of this sign and unbounded magnitude
DurationIs(d, neg, mag) ==
    /\ Len(mag) < 8 \/ (Len(mag) = 8 /\ mag[8] < 128)
    /\ d = IF neg THEN Neg64(Pad8(mag)) ELSE Pad8(mag)

\* the interval the claim gives for an interval string
IntervalIsAsClaimed(d, s) ==
    IF Atoi(s).ok
    THEN DurationIs(d, s[1] = "-", SecondsToNanos(IF s[1] \in {"+", "-"} THEN Drop(s, 1) ELSE s))
    ELSE DurationIs(d, FALSE, SecondsToNanos(<<"1", "2", "0">>))

\* C9: once Watch has run, the loop's interval is the integer number of
\* seconds parsed from the interval string when it parses as an integer and
\* 120 seconds otherwise ("" gives 120s, "30" gives 30s, "abc" gives 120s),
\* and Watch has returned no error
C9_Interval == \A w \in CodeWatchers : watchErr[w] # "" => (watchErr[w] = "nil" /\ IntervalIsAsClaimed(syncInterval[w], cfg[w]))

\* C10: the write sets of the watchers are disjoint: a step changes the
\* neighbor table only if it is a step of an ARP pass, the conntrack table
\* only if it is a step of a conntrack pass, the links only if it is a veth
\* cleanup, and a step of a pass leaves the tables of the other watchers as
\* they were
C10_DisjointWrites ==
    [][/\ kernel'.neigh # kernel.neigh => StepOf("arp")
       /\ kernel'.ct # kernel.ct => StepOf("ct")
       /\ kernel'.links # kernel.links => StepOf("veth")
       /\ StepOf("arp") => (kernel'.ct = kernel.ct /\ kernel'.links = kernel.links)
       /\ StepOf("ct") => (kernel'.neigh = kernel.neigh /\ kernel'.links = kernel.links)
       /\ StepOf("veth") => (kernel'.neigh = kernel.neigh /\ kernel'.ct = kernel.ct)]_vars

\* the latest pass of each watcher changed its table: a neighbor_set, a
\* conntrack_delete and a link_delete
C10_Witness ==
    /\ \A w \in Watchers : last[w].ran /\ last[w].err = "nil"
    /\ \E r \in 1..Len(last["arp"].log) : last["arp"].log[r].did = "neighbor_set"
    /\ \E r \in 1..Len(last["ct"].log) : last["ct"].log[r].did = "conntrack_delete"
    /\ \E r \in 1..Len(last["veth"].log) : last["veth"].log[r].did = "link_delete"
    /\ kernel # SysKernel


(***************************************************************************)
(* Properties of single passes                                             *)
(***************************************************************************)

\* the step taken may repair e: it is a step of the loop of an ARP pass, e
\* is on the bridge and inside the subnet the pass resolved, and the IP of e
\* is the PrimaryIp of a metadata container of the local network
ArpMayRepair(e) ==
    /\ StepOf("arp") /\ run["arp"].at = "loop"
    /\ e.LinkIndex = run["arp"].ctx.bridgeLinkIndex
    /\ Contains(run["arp"].ctx.bridgeSubnet, e.IP)
    /\ \E i \in 1..Len(metadata.containers) :
        /\ metadata.containers[i].NetworkUUID = run["arp"].ctx.networkUUID
        /\ metadata.containers[i].PrimaryIp = IPString(e.IP)

\* C11: the ARP watcher never deletes a neighbor entry, and every neighbor
\* entry that is not on the local bridge, or whose IP is outside BridgeSubnet,
\* or whose IP is that of no metadata container of the local network, is the
\* same after every step as before it
C11_ArpFrame ==
    [][\A i \in 1..Len(kernel.neigh) :
        /\ i <= Len(kernel'.neigh)
        /\ kernel'.neigh[i].LinkIndex = kernel.neigh[i].LinkIndex
        /\ kernel'.neigh[i].IP = kernel.neigh[i].IP
        /\ ~ArpMayRepair(kernel.neigh[i]) => kernel'.neigh[i] = kernel.neigh[i]]_vars

\* a completed ARP pass repaired one entry and met another that is off the
\* bridge, outside the subnet or of no container, which is still in the table
C11_Witness ==
    /\ ArpPassCompleted
    /\ \E r, q \in 1..Len(last["arp"].log) :
        /\ last["arp"].log[r].did = "neighbor_set"
        /\ last["arp"].log[q].did \in {"out_of_scope", "no_container"}
        /\ q <= Len(kernel.neigh) /\ kernel.neigh[q] = last["arp"].log[q].entry
        /\ ~(ArpInScope(kernel.neigh[q]) /\ ArpOwners(kernel.neigh[q]) # {})


\* the veths a recomputation of HostVeths minus ContainerVeths on the present
\* kernel and runtime state can find dangling: the host view is taken over
\* any set of local bridges GetHostViewVethMap can collect from the CNI
\* configs of the local networks
VethDanglingNow ==
    UNION {LET host == GetHostViewVethMap(VethPrefix, kernel.links, lb)
           IN  IF host.err # "nil" THEN {} ELSE DOMAIN GetDanglingVeths(host.veths, GetContainersViewVethMapByEnteringNS(docker)) :
           lb \in LocalBridgesChoices(LocalNetworks(metadata))}

\* C12: after a veth reconciliation that completes and in which every
\* link_delete succeeds, with the containers unchanged, the set HostVeths
\* minus ContainerVeths recomputed on the resulting kernel and runtime state
\* is empty
C12_VethNoDanglingLeft ==
    (VethPassCompleted /\ ~SomeCallFailed(last["veth"].log)) => VethDanglingNow = {}

\* the record of the latest ARP pass at position r is a neighbor_set call
ArpIssued(r) == last["arp"].log[r].did \in {"neighbor_set", "neighbor_set_failed"}

\* C13: for every neighbor entry on the local bridge and inside BridgeSubnet
\* whose IP is that of a known container, the ARP pass issues neighbor_set if
\* and only if the entry's MAC differs from the expected MAC, at most once
\* per entry; the entry written keeps LinkIndex and IP and carries
\* HardwareAddr = expected MAC and State = REACHABLE; an entry that already
\* has the expected MAC gets no kernel mutation
C13_ArpRepairRule ==
    ArpPassCompleted =>
        \A r \in 1..Len(last["arp"].log) :
            LET e == last["arp"].log[r].entry
                sent == last["arp"].log[r].sent
            IN  (ArpInScope(e) /\ ArpOwners(e) # {}) =>
                    /\ ArpIssued(r) <=> ~ArpHasExpectedMac(e)
                    /\ ArpIssued(r) =>
                        /\ sent.LinkIndex = e.LinkIndex /\ sent.IP = e.IP
                        /\ sent.HardwareAddr = ParseMAC(ArpExpectedText(e)).hw
                        /\ sent.State = "NUD_REACHABLE"
                    /\ \A q \in 1..Len(last["arp"].log) :
                        (last["arp"].log[q].entry.LinkIndex = e.LinkIndex /\ last["arp"].log[q].entry.IP = e.IP) => q = r


\* the container the lookup of e yields: the one mapped to its specific key,
\* or else the one mapped to the generic key, as a sequence of at most one
CtExpectedOf(e) ==
    LET specific == e.OriginalDestinationIP \o <<":">> \o e.OriginalDestinationPort \o <<"/">> \o e.Protocol
        generic == <<"0", ".", "0", ".", "0", ".", "0", ":">> \o e.OriginalDestinationPort \o <<"/">> \o e.Protocol
    IN  IF specific \in DOMAIN CtPublished THEN <<CtPublished[specific]>>
        ELSE IF generic \in DOMAIN CtPublished THEN <<CtPublished[generic]>>
        ELSE <<>>

\* C14: a conntrack pass calls conntrack_delete on entry e if and only if
\* the lookup (specific key first, generic key only when the specific key
\* misses) yields a container and e.ReplySourceIp differs from that
\* container's PrimaryIp; an entry matching neither key is never deleted, nor
\* is one whose specific key maps to a container with matching PrimaryIp
C14_CtDeleteRule ==
    [][(PassStep("ct") /\ last'["ct"].err = "nil") =>
        LET entries == last'["ct"].entries
        IN  /\ Len(last'["ct"].log) = Len(entries)
            /\ \A j \in 1..Len(entries) :
                /\ last'["ct"].log[j].entry = entries[j]
                /\ (last'["ct"].log[j].did \in {"conntrack_delete", "conntrack_delete_failed"})
                    <=> (CtExpectedOf(entries[j]) # <<>> /\ entries[j].ReplySourceIP # CtExpectedOf(entries[j])[1].PrimaryIp)
                /\ (\A i \in 1..Len(kernel'.ct) : kernel'.ct[i] # entries[j]) => last'["ct"].log[j].did = "conntrack_delete"]_vars

\* a completed pass kept an entry whose specific key maps to the container it
\* replies from while the generic key maps to another container, and deleted
\* an entry it matched by the generic key
C14_Witness ==
    /\ CtPassCompleted
    /\ \E r \in 1..Len(last["ct"].log) :
        LET e == last["ct"].log[r].entry
        IN  /\ last["ct"].log[r].did = "match" /\ last["ct"].log[r].via = "specific"
            /\ GenericKey(e) \in DOMAIN CtPublished /\ CtPublished[GenericKey(e)].PrimaryIp # e.ReplySourceIP
            /\ \E i \in 1..Len(kernel.ct) : kernel.ct[i] = e
    /\ CtDeleted("generic")


\* the published-port triples hostIp:hostPort:containerPort/protocol of the
\* metadata containers on this host, as (container position, port position)
CtTriples ==
    UNION {{<<i, j>> : j \in {x \in 1..Len(metadata.containers[i].Ports) : Len(Split(metadata.containers[i].Ports[x], ":")) = 3}} :
              i \in {c \in 1..Len(metadata.containers) : metadata.containers[c].HostUUID = SelfHost}}

\* the key hostIp:hostPort/protocol of a triple
CtTripleKey(p) ==
    LET fields == Split(metadata.containers[p[1]].Ports[p[2]], ":")
    IN  fields[1] \o <<":">> \o fields[2] \o <<"/">> \o Split(fields[3], "/")[2]

\* C15: the published-port map a conntrack pass builds holds the key
\* hostIp:hostPort/protocol of every published-port triple of every container
\* on this host, no key of a container on another host or without ports, and
\* maps a key two local containers publish to the one that comes last in the
\* metadata container sequence
C15_PortMap ==
    (last["ct"].ran /\ last["ct"].err \in {"nil", "ListDNAT"}) =>
        /\ DOMAIN last["ct"].containersMap = {CtTripleKey(p) : p \in CtTriples}
        /\ \A p \in CtTriples :
            (\A q \in CtTriples : CtTripleKey(q) = CtTripleKey(p) => q[1] <= p[1])
                => last["ct"].containersMap[CtTripleKey(p)] = metadata.containers[p[1]]

\* a pass built a map in which a key that two containers on this host publish
\* maps to the second of them
C15_Witness ==
    /\ last["ct"].ran /\ last["ct"].err = "nil"
    /\ \E p, q \in CtTriples :
        /\ p[1] < q[1] /\ CtTripleKey(p) = CtTripleKey(q)
        /\ metadata.containers[p[1]] # metadata.containers[q[1]]
        /\ last["ct"].containersMap[CtTripleKey(q)] = metadata.containers[q[1]]


\* the latest ARP pass got as far as bridge discovery
ArpDiscoveryRan == last["arp"].ran /\ last["arp"].err \notin {"GetNetworks", "GetSelfHost", "GetServices", "couldn't find any local networks"}

\* the CNI config of the local network: file name -> plugin-config
ArpLocalConf ==
    LET n == LocalNetworkOf(metadata.networks, metadata.services)
    IN  IF n.hasCni THEN n.cniConfig ELSE [f \in {} |-> 0]

\* the string field of a plugin-config, empty when missing or no string
ArpConfField(f, key) ==
    IF ArpLocalConf[f].isMap /\ key \in DOMAIN ArpLocalConf[f].fields /\ ArpLocalConf[f].fields[key].isStr
    THEN ArpLocalConf[f].fields[key].s ELSE <<>>

\* the plugin-configs of the canonical bridge plugin type
ArpBridgePlugins == {f \in DOMAIN ArpLocalConf : ArpConfField(f, "type") = <<"r", "a", "n", "c", "h", "e", "r", "-", "b", "r", "i", "d", "g", "e">>}

\* the plugin-config has a non-empty bridge and a non-empty bridgeSubnet
ArpPluginValid(f) == ArpConfField(f, "bridge") # <<>> /\ ArpConfField(f, "bridgeSubnet") # <<>>

ArpInvalidConfigErrors == {"bridge is empty in CNI config", "bridgeSubnet is empty in CNI config"}

\* C16: getBridgeInfo returns the bridge and bridgeSubnet of the first
\* plugin-config of type "rancher-bridge" when both are non-empty strings,
\* fails with an invalid-config error when a matching plugin-config has an
\* empty or missing bridge or bridgeSubnet, and with a bridge-missing error
\* when no plugin-config has that type; plugin-configs of other types never
\* contribute a bridge
C16_BridgeDiscovery ==
    ArpDiscoveryRan =>
        /\ (ArpBridgePlugins = {}) <=> (last["arp"].err = "couldn't find bridge info")
        /\ last["arp"].err \in ArpInvalidConfigErrors => \E f \in ArpBridgePlugins : ~ArpPluginValid(f)
        /\ (ArpBridgePlugins # {} /\ \A f \in ArpBridgePlugins : ~ArpPluginValid(f)) => last["arp"].err \in ArpInvalidConfigErrors
        /\ (ArpBridgePlugins # {} /\ \A f \in ArpBridgePlugins : ArpPluginValid(f)) => last["arp"].err \notin ArpInvalidConfigErrors
        /\ last["arp"].err = "nil" =>
            \E f \in ArpBridgePlugins :
                /\ ArpPluginValid(f)
                /\ last["arp"].ctx.bridge = ArpConfField(f, "bridge")
                /\ last["arp"].ctx.bridgeSubnet = ParseCIDR(ArpConfField(f, "bridgeSubnet"))

\* a pass took its bridge from the one "rancher-bridge" plugin-config of a
\* CNI config that also holds a plugin-config of another type
C16_Witness ==
    /\ last["arp"].ran /\ last["arp"].err = "nil"
    /\ Cardinality(DOMAIN ArpLocalConf) = 2 /\ Cardinality(ArpBridgePlugins) = 1
    /\ \A f \in ArpBridgePlugins : last["arp"].ctx.bridge = ArpConfField(f, "bridge")


\* C17: a local network whose CNI config holds more than one bridge
\* plugin-config is a configuration error: the ARP pass for it aborts with
\* an error and issues no neighbor_set
C17_TwoBridgesRejected ==
    (ArpDiscoveryRan /\ Cardinality(ArpBridgePlugins) > 1) =>
        /\ last["arp"].err # "nil"
        /\ \A r \in 1..Len(last["arp"].log) : ~ArpIssued(r)


\* the bridge names of the local networks: the string "bridge" fields of
\* the plugin-configs of their CNI configs, whatever the plugin type
VethBridgeNames ==
    UNION {{LocalNetworks(metadata)[i].cniConfig[f].fields["bridge"].s :
                f \in {g \in DOMAIN LocalNetworks(metadata)[i].cniConfig :
                          /\ LocalNetworks(metadata)[i].cniConfig[g].isMap
                          /\ "bridge" \in DOMAIN LocalNetworks(metadata)[i].cniConfig[g].fields
                          /\ LocalNetworks(metadata)[i].cniConfig[g].fields["bridge"].isStr}} :
              i \in {j \in 1..Len(LocalNetworks(metadata)) : LocalNetworks(metadata)[j].hasCni}}

\* C18: the local-bridge set of the veth host view holds the bridge name of
\* every plugin-config with a string "bridge" field of every local network,
\* also when the same CNI config holds plugin-configs without a "bridge"
\* field, and the host view fails with NoLocalBridge only when none of these
\* names resolves to a kernel link
C18_VethBridgeSet ==
    (last["veth"].ran /\ last["veth"].err \notin {"LinkList", "LocalNetworks"}) =>
        /\ (\E i \in 1..Len(last["veth"].links) : last["veth"].links[i].Name \in VethBridgeNames)
            => last["veth"].err # "couldn't find any local bridge link"
        /\ last["veth"].err = "nil" => VethBridgeNames \subseteq last["veth"].localBridges


\* the runtime containers that are not host-networked and whose namespace
\* entry and eth0 lookup succeed
VethScannable == {i \in 1..Len(docker) : docker[i].NetworkMode # "host" /\ docker[i].NsEntry = "ok" /\ docker[i].HasEth0}

\* C19: the container view built by entering namespaces holds exactly the
\* decimal strings of eth0's ParentIndex of the non-host-networked containers
\* whose namespace entry and eth0 lookup succeed; a failure for one container
\* skips that container only, and the scan returns no error
C19_ContainerView ==
    [][(PassStep("veth") /\ last'["veth"].err \notin {"LinkList", "LocalNetworks", "couldn't find any local bridge link", "ContainerList"}) =>
        /\ last'["veth"].err = "nil"
        /\ last'["veth"].containerView = {Itoa(docker[i].Eth0ParentIndex) : i \in VethScannable}]_vars

\* a completed scan skipped a container whose namespace entry or eth0 lookup
\* failed and still reported the veth of the container listed after it
C19_Witness ==
    /\ VethPassCompleted
    /\ \E i, j \in 1..Len(docker) :
        /\ i < j
        /\ docker[i].NetworkMode # "host" /\ i \notin VethScannable
        /\ j \in VethScannable /\ Itoa(docker[j].Eth0ParentIndex) \in last["veth"].containerView
    /\ Cardinality(last["veth"].containerView) = 1


\* published ports against a neighbor table and a conntrack table that both
\* hold entries to repair
AbortCtEnvs ==
    /\ metadata \in [networks : {<<Network("n1", CniGood)>>}, services : {GoodServices},
                     containers : InjSeqs({c \in CtContainerPool : Len(c.Ports) = 1}, MaxContainers)]
    /\ kernel = BaseKernel

\* the ARP loop and the conntrack loop side by side, over the environments of
\* the ARP discovery and those of the published ports
InitAbort ==
    /\ Started
    /\ faulty = Calls
    /\ cfg = DefaultCfg
    /\ docker = <<>>
    /\ (ArpConfigEnvs \/ AbortCtEnvs)

NextAbort == CtWatch \/ ArpWatch \/ ArpSleep \/ ArpDoSync \/ CtSleep \/ CtDoSync

SpecAbort == InitAbort /\ [][NextAbort]_vars

\* C20: when an ARP or conntrack pass ends with a step-level error (a
\* metadata fetch fails, no local network, bridge info missing or invalid,
\* bridge link not found, bridge subnet unparsable, the neighbor or conntrack
\* list fails) it has issued no kernel mutation: the kernel tables are the
\* same as before the step: a pass writes nothing before it reaches its loop,
\* and only a pass that has not reached its loop ends with an error
C20_AbortWritesNothing ==
    [][\A w \in CodeWatchers :
        /\ (StepOf(w) /\ run[w].at # "loop") => kernel' = kernel
        /\ (PassStep(w) /\ last'[w].err # "nil") => (run[w].at # "loop" /\ kernel' = kernel /\ ~IssuedMutation(last'[w].log))]_vars

\* an ARP pass has ended with a step-level error while the neighbor table
\* holds an entry a completed pass would repair
C20_Witness ==
    /\ last["arp"].ran
    /\ last["arp"].err \in {"GetNetworks", "GetSelfHost", "GetServices", "couldn't find any local networks", "couldn't find bridge info",
                            "bridge is empty in CNI config", "bridgeSubnet is empty in CNI config", "LinkByName", "ParseCIDR", "NeighList", "GetContainers"}
    /\ \E i \in 1..Len(kernel.neigh), c \in 1..Len(metadata.containers) :
        /\ metadata.containers[c].PrimaryIp = IPString(kernel.neigh[i].IP)
        /\ metadata.containers[c].HostUUID = SelfHost
        /\ ParseMAC(metadata.containers[c].PrimaryMacAddress).ok
        /\ ParseMAC(metadata.containers[c].PrimaryMacAddress).hw # kernel.neigh[i].HardwareAddr



\* a time.Duration above zero: time.Sleep pauses the goroutine for such a
\* duration and returns at once for any other
Positive64(d) == d[8] < 128 /\ d # Zero64

\* C21: the interval a loop sleeps between two passes is strictly positive
\* for every interval string Watch accepts, "0" and the negative integers
\* included: every time.Sleep of a loop that has returned was a sleep of
\* positive duration, so no two passes run back to back
C21_PositiveSleep ==
    \A w \in CodeWatchers : hist[w][2] = "Sleep" => Positive64(syncInterval[w])



\* the network-driver containers on this host that belong to the network
\* the latest ARP pass chose as its local network
ArpDriversOfLocalNetwork ==
    {i \in 1..Len(LocalDriverContainers(metadata.services)) :
        LocalDriverContainers(metadata.services)[i].NetworkUUID = last["arp"].ctx.networkUUID}

\* C22: in every ARP pass that reaches the repair loop, the DriverMac used
\* as expected MAC for remote containers is the PrimaryMacAddress of a
\* network-driver container on this host whose NetworkUUID is the UUID of
\* the network chosen as local network of that pass, also when more than
\* one network-driver service has a container on this host
C22_DriverMacOfLocalNetwork ==
    ArpPassCompleted =>
        \E i \in ArpDriversOfLocalNetwork :
            last["arp"].ctx.networkDriverMacAddress = LocalDriverContainers(metadata.services)[i].PrimaryMacAddress


=============================================================================
